---- MODULE Spec2Model ----
(***************************************************************************)
(* A model of the apk-proofs prover (bw6/src/prover.rs), the keyset        *)
(* (bw6/src/keyset.rs), the public inputs and proof (bw6/src/lib.rs), the  *)
(* register builders (bw6/src/piop) and the constraint system              *)
(* (bw6/src/constraints.rs).                                               *)
(*                                                                         *)
(* Curve and field.  BLS12-377 (y^2 = x^3 + 1 over a 377 bit field) is     *)
(* replaced by the same equation over the field of FieldModulus elements.  *)
(* The curve then has 114 points: G1 is its subgroup of order 19 and the   *)
(* point (0, 1) that lib.rs names point_in_g1_complement has order 3.      *)
(* The field has elements of multiplicative order 16, so it holds the      *)
(* evaluation domains of up to 4 positions and their 4 times larger        *)
(* domains.  Group and field arithmetic are computed, never assumed.       *)
(*                                                                         *)
(* Commitments, openings and challenges.  The polynomial commitment scheme *)
(* and the Fiat-Shamir transcript are external collaborators.  A           *)
(* polynomial is the term that names what it was computed from (a register *)
(* polynomial is the interpolation of its table of values over the         *)
(* domain, and is named by that table); a commitment names the committer   *)
(* key and the polynomial, an opening names the polynomial and the point.  *)
(* The transcript is the sequence of absorbed messages; a challenge is     *)
(* drawn by a random oracle (the variable oracle) that answers a repeated  *)
(* query with the same value and a new query with a value not used before. *)
(***************************************************************************)
EXTENDS Integers, Sequences, FiniteSets, TLC

(***************************************************************************)
(* Bounds of the model.                                                    *)
(***************************************************************************)
\* the longest key list a Keyset is built from
MaxKeys == 2

\* the calls made on the cache of keyset commitments
MaxCacheCalls == 4

\* the eras the light client example runs for
MaxEras == 2

\* the number of elements of the base field the keys' coordinates live in
FieldModulus == 113

None == <<>>

(***************************************************************************)
(* Field arithmetic (ark_ff, external).                                    *)
(***************************************************************************)
Fp == 0 .. (FieldModulus - 1)

FAdd(a, b) == (a + b) % FieldModulus

FSub(a, b) == (a + FieldModulus - b) % FieldModulus

FMul(a, b) == (a * b) % FieldModulus

FInv(a) == CHOOSE b \in Fp : FMul(a, b) = 1

(***************************************************************************)
(* Curve arithmetic (ark_ec, external): affine points of y^2 = x^3 + 1,    *)
(* with the flag that marks the identity.                                  *)
(***************************************************************************)
Identity == [x |-> 0, y |-> 0, infinity |-> TRUE]

Affine(px, py) == [x |-> px, y |-> py, infinity |-> FALSE]

Neg(p) == IF p.infinity THEN p ELSE Affine(p.x, FSub(0, p.y))

GroupAdd(p, q) ==
    IF p.infinity THEN q
    ELSE IF q.infinity THEN p
    ELSE IF p.x = q.x /\ FAdd(p.y, q.y) = 0 THEN Identity
    ELSE LET lambda == IF p.x = q.x
                       THEN FMul(FMul(3, FMul(p.x, p.x)), FInv(FMul(2, p.y)))
                       ELSE FMul(FSub(q.y, p.y), FInv(FSub(q.x, p.x)))
             x3 == FSub(FSub(FMul(lambda, lambda), p.x), q.x)
             y3 == FSub(FMul(lambda, FSub(p.x, x3)), p.y)
         IN  Affine(x3, y3)

\* the generator of G1 and its multiples: the public keys of the model
G1Generator == Affine(3, 49)

G1Keys == { G1Generator, Neg(G1Generator) }

\* lib.rs: a point of the curve outside G1, the accumulator's initial value
point_in_g1_complement == Affine(0, 1)

\* lib.rs: hash_to_curve(b"apk-proofs"), one fixed point of G1
hash_to_curve == Neg(GroupAdd(G1Generator, G1Generator))

(***************************************************************************)
(* Sequences.                                                              *)
(***************************************************************************)
SeqsUpTo(S, lo, hi) == UNION { [1 .. k -> S] : k \in lo .. hi }

\* Vec::resize: cut, or fill with v up to length k
Resize(s, k, v) == [i \in 1 .. k |-> IF i <= Len(s) THEN s[i] ELSE v]

\* a faulty rotation: to the right
RotateRight(s) == [i \in 1 .. Len(s) |-> s[((i + Len(s) - 2) % Len(s)) + 1]]

\* slice::rotate_left(1): asserts 1 <= len, so it panics on the empty slice
RotateLeft(s) ==
    IF s = <<>> THEN <<"panic">> ELSE [i \in 1 .. Len(s) |-> s[(i % Len(s)) + 1]]

RECURSIVE SumPoints(_)
SumPoints(s) ==
    IF s = <<>> THEN Identity ELSE GroupAdd(SumPoints(Tail(s)), Head(s))

(***************************************************************************)
(* Bitmask (bitmask.rs): an ordered sequence of bits.                      *)
(***************************************************************************)
\* Bitmask::size
BitmaskSize(bitmask) == Len(bitmask)

\* Bitmask::count_ones
CountOnes(bitmask) == Cardinality({i \in 1 .. Len(bitmask) : bitmask[i]})

\* Bitmask::to_bits
ToBits(bitmask) == [i \in 1 .. Len(bitmask) |-> bitmask[i]]

\* Bitmask::to_bits_as_field_elements
ToBitsAsFieldElements(bitmask) ==
    [i \in 1 .. Len(bitmask) |-> IF bitmask[i] THEN 1 ELSE 0]

(***************************************************************************)
(* Polynomials, the commitment scheme (fflonk KZG, external) and the       *)
(* evaluation domain (ark_poly, external).                                 *)
(***************************************************************************)
\* Evaluations::from_vec_and_domain(table, domain).interpolate(): the one
\* polynomial of degree < Len(table) that takes these values on the domain
Interpolate(table) == <<"poly", table>>

\* the values on the domain of an interpolated polynomial
TableOf(poly) == poly[2]

\* Domains::amplify_polynomial: the polynomial's values on the 4x domain
AmplifyPolynomial(poly) == <<"evals_x4", poly>>

\* an evaluation point: a challenge, or a challenge times the domain generator
Point(id) == <<id, 0>>

\* zeta * domain.group_gen
TimesGroupGen(point) == <<point[1], point[2] + 1>>

\* fflonk::aggregation::single::aggregate_polys
AggregatePolys(polys, nus) == <<"agg", polys, nus>>

\* Polynomial::evaluate; the value of an aggregate is the same combination
\* of the values of its parts
Evaluate(poly, point) ==
    IF poly[1] = "agg"
    THEN <<"aggval",
           [i \in 1 .. Len(poly[2]) |-> <<"eval", poly[2][i], point>>],
           poly[3]>>
    ELSE <<"eval", poly, point>>

\* URS::ck: the committer key of the parameters
CommitterKey(kzg_params) == kzg_params

\* URS::raw_vk: the verifier key of the parameters
RawVk(kzg_params) == <<"vk", kzg_params.urs>>

\* Radix2EvaluationDomain::new(min_size): the smallest power of two >= min_size
RECURSIVE Pow2AtLeast(_, _)
Pow2AtLeast(min_size, n) ==
    IF n >= min_size THEN n ELSE Pow2AtLeast(min_size, 2 * n)

RECURSIVE Log2(_)
Log2(n) == IF n <= 1 THEN 0 ELSE 1 + Log2(n \div 2)

Radix2EvaluationDomain(min_size) ==
    LET n == Pow2AtLeast(min_size, 1)
    IN  [size |-> n, log_size_of_group |-> Log2(n)]

(***************************************************************************)
(* Polynomials in coefficient form (ark_poly, external): the sequence of   *)
(* coefficients, lowest degree first, over the evaluation domains of the   *)
(* field.                                                                  *)
(***************************************************************************)
RECURSIVE FPow(_, _)
FPow(a, k) ==
    IF k = 0 THEN 1
    ELSE IF k % 2 = 0 THEN FPow(FMul(a, a), k \div 2)
    ELSE FMul(a, FPow(FMul(a, a), k \div 2))

\* the multiplicative order of a nonzero field element
FOrder(a) == CHOOSE k \in 1 .. (FieldModulus - 1) :
                /\ FPow(a, k) = 1
                /\ \A j \in 1 .. (k - 1) : FPow(a, j) # 1

\* the sizes of the domains the field holds
DomainSizes == {k \in 1 .. (FieldModulus - 1) :
                   /\ (FieldModulus - 1) % k = 0
                   /\ \E e \in 0 .. 7 : k = 2 ^ e}

\* Radix2EvaluationDomain::group_gen of the largest domain, and of the others
LargestDomain == CHOOSE k \in DomainSizes : \A j \in DomainSizes : j <= k

LargestGroupGen == CHOOSE g \in Fp \ {0} : FOrder(g) = LargestDomain

GroupGen(size) == FPow(LargestGroupGen, LargestDomain \div size)

\* Radix2EvaluationDomain::element(i), counted from 1
DomainElement(size, i) == FPow(GroupGen(size), i - 1)

\* Polynomial::evaluate of a polynomial in coefficient form
RECURSIVE EvaluateCoefficients(_, _)
EvaluateCoefficients(coeffs, x) ==
    IF coeffs = <<>> THEN 0
    ELSE FAdd(Head(coeffs), FMul(x, EvaluateCoefficients(Tail(coeffs), x)))

RECURSIVE FSum(_)
FSum(s) == IF s = <<>> THEN 0 ELSE FAdd(Head(s), FSum(Tail(s)))

\* Evaluations::interpolate: the inverse transform of the values on the
\* domain of their number
InterpolateCoefficients(values) ==
    LET n == Len(values)
        w_inv == FInv(GroupGen(n))
        n_inv == FInv(n % FieldModulus)
    IN  [j \in 1 .. n |->
            FMul(n_inv,
                 FSum([i \in 1 .. n |->
                          FMul(values[i], FPow(w_inv, ((i - 1) * (j - 1)) % n))]))]

\* DensePolynomial::degree: the zero polynomial has degree 0
Degree(coeffs) ==
    LET nonzero == {j \in 1 .. Len(coeffs) : coeffs[j] # 0}
    IN  IF nonzero = {} THEN 0
        ELSE (CHOOSE j \in nonzero : \A k \in nonzero : k <= j) - 1

\* Domains::amplify: the values on the 4 times larger domain of the
\* polynomial that takes the given values on the domain
Amplify(values) ==
    LET coeffs == InterpolateCoefficients(values)
        size_x4 == 4 * Len(values)
    IN  [k \in 1 .. size_x4 |-> EvaluateCoefficients(coeffs, DomainElement(size_x4, k))]

\* Domains::constant_4x
Constant4x(size, c) == [k \in 1 .. (4 * size) |-> c]

\* DensePolynomial::degree() > d for the polynomials prove commits to and
\* opens.  An interpolated table of n values has a degree below n, the degree
\* of its coefficients.  The quotient is the combination of the constraint
\* polynomials, of degree 4(n - 1) and one more for the factor that leaves
\* the last position out, divided by the vanishing polynomial of degree n:
\* its degree is 3n - 3.  The packing registers and the linearization
\* polynomial are combinations of polynomials of the domain, and an
\* aggregate has the largest degree of its polynomials.
RECURSIVE DegreeExceeds(_, _)
DegreeExceeds(poly, d) ==
    IF poly[1] = "poly"
    THEN Len(poly[2]) - 1 > d /\ Degree(InterpolateCoefficients(poly[2])) > d
    ELSE IF poly[1] = "quot" THEN 3 * Len(poly[2][3].bitmask) - 3 > d
    ELSE IF poly[1] = "lin" THEN Len(poly[3][1][2]) - 1 > d
    ELSE IF poly[1] = "agg"
    THEN \E i \in 1 .. Len(poly[2]) : DegreeExceeds(poly[2][i], d)
    ELSE Len(poly[2]) - 1 > d

\* KZG::commit: the key has max_degree + 1 powers, and a polynomial of a
\* larger degree cannot be committed to
KzgCommit(ck, poly) ==
    IF DegreeExceeds(poly, ck.max_degree) THEN <<"panic">>
    ELSE <<"comm", ck.urs, poly>>

\* KZG::open: the commitment to the quotient of poly by X - point, a
\* polynomial of one degree less
KzgOpen(ck, poly, point) ==
    IF DegreeExceeds(poly, ck.max_degree + 1) THEN <<"panic">>
    ELSE <<"open", ck.urs, poly, point>>

(***************************************************************************)
(* Keyset (keyset.rs).                                                     *)
(***************************************************************************)
\* a faulty Keyset::new: no slot of the domain is kept for the accumulator's
\* initial value
KeysetNewTight(pks) ==
    LET min_domain_size == Len(pks)
        domain == Radix2EvaluationDomain(min_domain_size)
        padded_pks == Resize(pks, domain.size, hash_to_curve)
    IN  [pks |-> pks,
         domain |-> domain,
         pks_polys |->
             <<Interpolate([i \in 1 .. domain.size |-> padded_pks[i].x]),
               Interpolate([i \in 1 .. domain.size |-> padded_pks[i].y])>>,
         pks_evals_x4 |-> None]

\* Keyset::new
KeysetNew(pks) ==
    LET min_domain_size == Len(pks) + 1
        domain == Radix2EvaluationDomain(min_domain_size)
        padding_pk == hash_to_curve
        padded_pks == Resize(pks, domain.size, padding_pk)
        pks_x == [i \in 1 .. domain.size |-> padded_pks[i].x]
        pks_y == [i \in 1 .. domain.size |-> padded_pks[i].y]
    IN  [pks |-> pks,
         domain |-> domain,
         pks_polys |-> <<Interpolate(pks_x), Interpolate(pks_y)>>,
         pks_evals_x4 |-> None]

\* a faulty Keyset::size: the padding is counted
KeysetSizeDomain(ks) == ks.domain.size

\* Keyset::size
KeysetSize(ks) == Len(ks.pks)

\* Keyset::amplify
KeysetAmplify(ks) ==
    [ks EXCEPT !.pks_evals_x4 =
        <<AmplifyPolynomial(ks.pks_polys[1]), AmplifyPolynomial(ks.pks_polys[2])>>]

\* the assertion of Keyset::commit
CommitFits(ks, kzg_pk) == ks.domain.size <= kzg_pk.max_degree + 1

\* a faulty Keyset::commit: the commitment to the y coordinates comes first
KeysetCommitSwapped(ks, kzg_pk) ==
    [pks_comm |-> <<KzgCommit(kzg_pk, ks.pks_polys[2]),
                    KzgCommit(kzg_pk, ks.pks_polys[1])>>,
     log_domain_size |-> ks.domain.log_size_of_group]

\* Keyset::commit
KeysetCommit(ks, kzg_pk) ==
    LET pks_x_comm == KzgCommit(kzg_pk, ks.pks_polys[1])
        pks_y_comm == KzgCommit(kzg_pk, ks.pks_polys[2])
    IN  [pks_comm |-> <<pks_x_comm, pks_y_comm>>,
         log_domain_size |-> ks.domain.log_size_of_group]

\* a faulty Keyset::aggregate: the bitmask is ignored and every key is added
KeysetAggregateAll(ks, bits) ==
    LET RECURSIVE SumFrom(_)
        SumFrom(i) ==
            IF i > Len(ks.pks) THEN Identity
            ELSE GroupAdd(ks.pks[i], SumFrom(i + 1))
    IN  SumFrom(1)

\* Keyset::aggregate, for a bitmask of the keyset's length
KeysetAggregate(ks, bits) ==
    LET selected == {i \in 1 .. Len(ks.pks) : bits[i]}
        RECURSIVE SumFrom(_)
        SumFrom(i) ==
            IF i > Len(ks.pks) THEN Identity
            ELSE IF i \in selected THEN GroupAdd(ks.pks[i], SumFrom(i + 1))
            ELSE SumFrom(i + 1)
    IN  SumFrom(1)

(***************************************************************************)
(* Public inputs (lib.rs).                                                 *)
(***************************************************************************)
\* AccountablePublicInput::new
AccountablePublicInputNew(apk, bitmask) == <<"accountable", apk, bitmask>>

\* a faulty CountingPublicInput::new: the count is the bitmask's length
CountingPublicInputSize(apk, bitmask) == <<"counting", apk, BitmaskSize(bitmask)>>

\* CountingPublicInput::new
CountingPublicInputNew(apk, bitmask) == <<"counting", apk, CountOnes(bitmask)>>

Variants == {"simple", "packed", "counting"}

\* P::PI::new for the protocol of each prove_* method
PublicInputNew(variant, apk, bitmask) ==
    IF variant = "counting" THEN CountingPublicInputNew(apk, bitmask)
    ELSE AccountablePublicInputNew(apk, bitmask)

(***************************************************************************)
(* Transcript (transcript.rs over merlin).                                 *)
(***************************************************************************)
\* Transcript::new(label)
TranscriptNew(label) == << <<"dom-sep", label>> >>

\* an absorbed message
Absorb(transcript, label, message) == Append(transcript, <<label, message>>)

\* deriving a challenge binds its label to everything absorbed so far
ChallengeQuery(transcript, label) == Append(transcript, <<"challenge", label>>)

\* a faulty challenge: drawn afresh each time, whatever was absorbed
OracleAnswerFresh(o, query) == Len(o) + 1

\* the random oracle: the queries answered so far, in the order they were
\* first asked; the answer to a query is its position
OracleAnswer(o, query) ==
    IF \E i \in 1 .. Len(o) : o[i] = query
    THEN CHOOSE i \in 1 .. Len(o) : o[i] = query
    ELSE Len(o) + 1

OracleAfter(o, query) ==
    IF query = None \/ \E i \in 1 .. Len(o) : o[i] = query
    THEN o
    ELSE Append(o, query)

\* ApkTranscript::set_protocol_params
SetProtocolParams(transcript, domain, vk) ==
    Absorb(transcript, "protocol_params", <<domain.size, vk>>)

\* ApkTranscript::set_keyset_commitment
SetKeysetCommitment(transcript, keyset_comm) ==
    Absorb(transcript, "keyset_commitment",
           <<keyset_comm.pks_comm, keyset_comm.log_domain_size>>)

\* ApkTranscript::append_public_input
AppendPublicInput(transcript, public_input) ==
    Absorb(transcript, "public_input", public_input)

\* ApkTranscript::append_register_commitments
AppendRegisterCommitments(transcript, commitments) ==
    Absorb(transcript, "register_commitments", commitments)

\* ApkTranscript::append_2nd_round_register_commitments
Append2ndRoundRegisterCommitments(transcript, commitments) ==
    Absorb(transcript, "2nd_round_register_commitments", commitments)

\* ApkTranscript::append_quotient_commitment
AppendQuotientCommitment(transcript, q_comm) ==
    Absorb(transcript, "quotient_commitment", q_comm)

\* ApkTranscript::append_evaluations
AppendEvaluations(transcript, register_evaluations, q_zeta, r_zeta_omega) ==
    Absorb(transcript, "evaluations", <<register_evaluations, q_zeta, r_zeta_omega>>)


(***************************************************************************)
(* Registers and constraints (constraints.rs, piop/affine_addition.rs).    *)
(***************************************************************************)
\* Registers::new: the bitmask zero-extended to the domain, the keys'
\* coordinates, the accumulator and the accumulator rotated by one position;
\* the rotation of an empty accumulator panics
RegistersNew(domain_size, bitmask, pks, apk_acc) ==
    LET bits == Resize(ToBitsAsFieldElements(bitmask), domain_size, 0)
        pks_x == [i \in 1 .. Len(pks) |-> pks[i].x]
        pks_y == [i \in 1 .. Len(pks) |-> pks[i].y]
        apk_acc_x_shifted == RotateLeft(apk_acc[1])
        apk_acc_y_shifted == RotateLeft(apk_acc[2])
    IN  IF apk_acc[1] = <<>> \/ apk_acc[2] = <<>>
        THEN <<"panic">>
        ELSE [bitmask |-> bits,
              pks_x |-> pks_x,
              pks_y |-> pks_y,
              apk_acc_x_shifted |-> apk_acc_x_shifted,
              apk_acc_y_shifted |-> apk_acc_y_shifted,
              apk_acc_x |-> apk_acc[1],
              apk_acc_y |-> apk_acc[2]]

\* a faulty booleanity constraint: b * (1 + b)
BooleanityAtPlus(registers, i) ==
    FMul(registers.bitmask[i], FAdd(1, registers.bitmask[i]))

\* a faulty booleanity constraint: the factor 1 - b is missing
BooleanityAtLinear(registers, i) == registers.bitmask[i]

\* Constraints::compute_bitmask_booleanity_constraint_polynomial, its value
\* at domain position i: b * (1 - b)
BooleanityAt(registers, i) ==
    LET b == registers.bitmask[i]
        one_minus_b == FSub(1, b)
    IN  FMul(b, one_minus_b)

\* a faulty c1: x1 - x2 + x3 in the place of x1 + x2 + x3
CondAddC1AtWrongSum(registers, i) ==
    LET b == registers.bitmask[i]
        x1 == registers.apk_acc_x[i]
        y1 == registers.apk_acc_y[i]
        x2 == registers.pks_x[i]
        y2 == registers.pks_y[i]
        x3 == registers.apk_acc_x_shifted[i]
        y3 == registers.apk_acc_y_shifted[i]
    IN  FAdd(FMul(b, FSub(FMul(FMul(FSub(x1, x2), FSub(x1, x2)),
                               FAdd(FSub(x1, x2), x3)),
                          FMul(FSub(y2, y1), FSub(y2, y1)))),
             FMul(FSub(1, b), FSub(y3, y1)))

\* Constraints::compute_conditional_affine_addition_constraint_polynomials,
\* the value of c1 at domain position i
CondAddC1At(registers, i) ==
    LET b == registers.bitmask[i]
        one_minus_b == FSub(1, b)
        x1 == registers.apk_acc_x[i]
        y1 == registers.apk_acc_y[i]
        x2 == registers.pks_x[i]
        y2 == registers.pks_y[i]
        x3 == registers.apk_acc_x_shifted[i]
        y3 == registers.apk_acc_y_shifted[i]
    IN  FAdd(FMul(b, FSub(FMul(FMul(FSub(x1, x2), FSub(x1, x2)),
                               FAdd(FAdd(x1, x2), x3)),
                          FMul(FSub(y2, y1), FSub(y2, y1)))),
             FMul(one_minus_b, FSub(y3, y1)))

\* the value of c2 at domain position i
CondAddC2At(registers, i) ==
    LET b == registers.bitmask[i]
        one_minus_b == FSub(1, b)
        x1 == registers.apk_acc_x[i]
        y1 == registers.apk_acc_y[i]
        x2 == registers.pks_x[i]
        y2 == registers.pks_y[i]
        x3 == registers.apk_acc_x_shifted[i]
        y3 == registers.apk_acc_y_shifted[i]
    IN  FAdd(FMul(b, FSub(FMul(FSub(x1, x2), FAdd(y3, y1)),
                          FMul(FSub(y2, y1), FSub(x3, x1)))),
             FMul(one_minus_b, FSub(x3, x1)))

\* Registers::new_unchecked: every register amplified to the 4 times larger
\* domain
RegistersNewUnchecked(bitmask, pks, apk_acc, apk_acc_shifted) ==
    [bitmask |-> Amplify(bitmask),
     pks_x |-> Amplify(pks[1]),
     pks_y |-> Amplify(pks[2]),
     apk_acc_x_shifted |-> Amplify(apk_acc_shifted[1]),
     apk_acc_y_shifted |-> Amplify(apk_acc_shifted[2]),
     apk_acc_x |-> Amplify(apk_acc[1]),
     apk_acc_y |-> Amplify(apk_acc[2])]

\* Registers::new followed by new_unchecked: the registers over the 4 times
\* larger domain
RegistersNewAmplified(domain_size, bitmask, pks, apk_acc) ==
    LET registers == RegistersNew(domain_size, bitmask, pks, apk_acc)
    IN  IF apk_acc[1] = <<>> \/ apk_acc[2] = <<>>
        THEN <<"panic">>
        ELSE RegistersNewUnchecked(
                 registers.bitmask,
                 <<registers.pks_x, registers.pks_y>>,
                 <<registers.apk_acc_x, registers.apk_acc_y>>,
                 <<registers.apk_acc_x_shifted, registers.apk_acc_y_shifted>>)

\* Constraints::compute_bitmask_booleanity_constraint_polynomial: b * (1 - b)
\* over the 4 times larger domain, interpolated
ComputeBitmaskBooleanityConstraintPolynomial(registers) ==
    InterpolateCoefficients(
        [k \in 1 .. Len(registers.bitmask) |-> BooleanityAt(registers, k)])

\* Constraints::compute_conditional_affine_addition_constraint_polynomials:
\* c1 and c2 over the 4 times larger domain, interpolated
ComputeConditionalAffineAdditionConstraintPolynomials(registers) ==
    <<InterpolateCoefficients(
          [k \in 1 .. Len(registers.bitmask) |-> CondAddC1At(registers, k)]),
      InterpolateCoefficients(
          [k \in 1 .. Len(registers.bitmask) |-> CondAddC2At(registers, k)])>>

\* Domains::is_zero: the polynomial vanishes on the domain
IsZeroOnDomain(size, coeffs) ==
    \A i \in 1 .. size : EvaluateCoefficients(coeffs, DomainElement(size, i)) = 0

\* the keys a keyset's coordinate polynomials interpolate, padding included
PaddedPks(ks) ==
    LET xs == TableOf(ks.pks_polys[1])
        ys == TableOf(ks.pks_polys[2])
    IN  [i \in 1 .. Len(xs) |-> Affine(xs[i], ys[i])]

\* the accumulator: the initial value, then one conditional addition a position
PartialSums(pks, bits) ==
    LET acc[i \in 1 .. Len(pks)] ==
            IF i = 1 THEN point_in_g1_complement
            ELSE IF bits[i - 1] = 1 THEN GroupAdd(acc[i - 1], pks[i - 1])
            ELSE acc[i - 1]
    IN  <<[i \in 1 .. Len(pks) |-> acc[i].x], [i \in 1 .. Len(pks) |-> acc[i].y]>>

\* AffineAdditionRegisters::new
AffineAdditionRegistersNew(domain_size, ks, bitmask) ==
    LET pks == PaddedPks(ks)
        bits == Resize(ToBitsAsFieldElements(bitmask), domain_size, 0)
    IN  RegistersNew(domain_size, bitmask, pks, PartialSums(pks, bits))

\* the counting scheme's extra register: the number of set bits before each
\* position
PartialCounts(registers) ==
    [i \in 1 .. Len(registers.bitmask) |->
        Cardinality({j \in 1 .. (i - 1) : registers.bitmask[j] = 1})]

\* AffineAdditionRegisters::get_register_polynomials
KeysetPolys(registers) ==
    <<Interpolate(registers.pks_x), Interpolate(registers.pks_y)>>

PartialSumsPolys(registers) ==
    <<Interpolate(registers.apk_acc_x), Interpolate(registers.apk_acc_y)>>

BitmaskPoly(registers) == Interpolate(registers.bitmask)

\* the packed scheme's second round registers, built from the bitmask and the
\* bitmask aggregation challenge
PackedCPoly(registers, r) == <<"packed_c", registers.bitmask, r>>

PackedAccPoly(registers, r) == <<"packed_acc", registers.bitmask, r>>

\* compute_constraint_polynomials: the constraint polynomials of a scheme are
\* determined by its registers (and, packed, by the challenge of round 2)
ConstraintPolynomials(variant, registers, r) ==
    <<"constraints", variant, registers, IF variant = "packed" THEN r ELSE 0>>

\* ProverProtocol::compute_quotient_polynomial: the phi-weighted combination
\* of the constraint polynomials divided by the vanishing polynomial
QuotientPolynomial(constraint_polys, phi) == <<"quot", constraint_polys, phi>>

\* the register polynomials that stay polynomials in the linearization
LinearizedPolys(variant, registers, r) ==
    PartialSumsPolys(registers)
      \o (IF variant = "packed"
          THEN <<PackedCPoly(registers, r), PackedAccPoly(registers, r)>>
          ELSE IF variant = "counting"
          THEN <<Interpolate(PartialCounts(registers))>>
          ELSE <<>>)

\* utils::randomize(phi, compute_constraints_linearized(evals, zeta))
LinearizationPolynomial(variant, polys, evals, phi, zeta) ==
    <<"lin", variant, polys, evals, phi, zeta>>

(***************************************************************************)
(* Register builders (piop/basic.rs, piop/packed.rs, piop/counting.rs).    *)
(***************************************************************************)
\* AffineAdditionRegisters::evaluate_register_polynomials
AffineAdditionEvaluations(registers, point) ==
    <<"affine_addition",
      <<Evaluate(Interpolate(registers.pks_x), point),
        Evaluate(Interpolate(registers.pks_y), point)>>,
      Evaluate(BitmaskPoly(registers), point),
      <<Evaluate(Interpolate(registers.apk_acc_x), point),
        Evaluate(Interpolate(registers.apk_acc_y), point)>> >>

\* AffineAdditionEvaluations::as_vec
AffineAdditionEvaluationsAsVec(evals) ==
    <<evals[2][1], evals[2][2], evals[3], evals[4][1], evals[4][2]>>

\* RegisterEvaluations::as_vec of the evaluations a proof holds
AsVec(evals) ==
    IF evals[1] = "without_bitmask"
    THEN <<evals[2][1], evals[2][2], evals[3][1], evals[3][2]>>
    ELSE IF evals[1] = "packed"
    THEN AffineAdditionEvaluationsAsVec(evals[4]) \o <<evals[2], evals[3]>>
    ELSE AffineAdditionEvaluationsAsVec(evals[2]) \o <<evals[3]>>

\* ProverProtocol::init
ProtocolInit(variant, domains, bitmask, ks) ==
    [variant |-> variant,
     register_evaluations |-> None,
     registers |-> AffineAdditionRegistersNew(domains.size, ks, ToBits(bitmask)),
     bitmask_packing_registers |-> None]

\* ProverProtocol::get_register_polynomials_to_commit1
GetRegisterPolynomialsToCommit1(protocol) ==
    IF protocol.variant = "simple"
    THEN PartialSumsPolys(protocol.registers)
    ELSE IF protocol.variant = "packed"
    THEN PartialSumsPolys(protocol.registers) \o <<BitmaskPoly(protocol.registers)>>
    ELSE PartialSumsPolys(protocol.registers)
           \o <<BitmaskPoly(protocol.registers),
                Interpolate(PartialCounts(protocol.registers))>>

\* a faulty get_register_polynomials_to_commit2: every builder returns the
\* packed scheme's second round polynomials
GetRegisterPolynomialsToCommit2Packed(protocol, verifier_challenge) ==
    <<PackedCPoly(protocol.registers, verifier_challenge),
      PackedAccPoly(protocol.registers, verifier_challenge)>>

\* ProverProtocol::get_register_polynomials_to_commit2: what it returns
GetRegisterPolynomialsToCommit2(protocol, verifier_challenge) ==
    IF protocol.variant = "packed"
    THEN <<PackedCPoly(protocol.registers, verifier_challenge),
           PackedAccPoly(protocol.registers, verifier_challenge)>>
    ELSE <<>>

\* a faulty second round: the builder does not keep the registers it built
ProtocolAfterCommit2Forgets(protocol, verifier_challenge) == protocol

\* ProverProtocol::get_register_polynomials_to_commit2: the builder after it
ProtocolAfterCommit2(protocol, verifier_challenge) ==
    IF protocol.variant = "packed"
    THEN [protocol EXCEPT !.bitmask_packing_registers =
                              <<"packing", verifier_challenge>>]
    ELSE protocol

\* the packed builder before its second round: bitmask_packing_registers is
\* None, and unwrapping it panics
PackingUnset(protocol) ==
    protocol.variant = "packed" /\ protocol.bitmask_packing_registers = None

\* the bitmask aggregation challenge a builder holds
PackingChallenge(protocol) ==
    IF protocol.variant = "packed" /\ protocol.bitmask_packing_registers # None
    THEN protocol.bitmask_packing_registers[2]
    ELSE 0

\* a faulty get_register_polynomials_to_open: the partial sums come first,
\* which is not the order the verifier combines the commitments in
GetRegisterPolynomialsToOpenSumsFirst(protocol) ==
    IF protocol.variant = "simple"
    THEN PartialSumsPolys(protocol.registers) \o KeysetPolys(protocol.registers)
    ELSE IF protocol.variant = "packed"
    THEN PartialSumsPolys(protocol.registers)
           \o KeysetPolys(protocol.registers)
           \o <<BitmaskPoly(protocol.registers)>>
           \o <<PackedCPoly(protocol.registers, PackingChallenge(protocol)),
                PackedAccPoly(protocol.registers, PackingChallenge(protocol))>>
    ELSE PartialSumsPolys(protocol.registers)
           \o KeysetPolys(protocol.registers)
           \o <<BitmaskPoly(protocol.registers)>>
           \o <<Interpolate(PartialCounts(protocol.registers))>>

\* ProverProtocol::get_register_polynomials_to_open
GetRegisterPolynomialsToOpen(protocol) ==
    IF PackingUnset(protocol) THEN <<"panic">>
    ELSE IF protocol.variant = "simple"
    THEN KeysetPolys(protocol.registers) \o PartialSumsPolys(protocol.registers)
    ELSE IF protocol.variant = "packed"
    THEN KeysetPolys(protocol.registers)
           \o <<BitmaskPoly(protocol.registers)>>
           \o PartialSumsPolys(protocol.registers)
           \o <<PackedCPoly(protocol.registers, PackingChallenge(protocol)),
                PackedAccPoly(protocol.registers, PackingChallenge(protocol))>>
    ELSE KeysetPolys(protocol.registers)
           \o <<BitmaskPoly(protocol.registers)>>
           \o PartialSumsPolys(protocol.registers)
           \o <<Interpolate(PartialCounts(protocol.registers))>>

\* ProverProtocol::compute_constraint_polynomials
ComputeConstraintPolynomials(protocol) ==
    IF PackingUnset(protocol) THEN <<"panic">>
    ELSE ConstraintPolynomials(protocol.variant, protocol.registers,
                               PackingChallenge(protocol))

\* ProverProtocol::compute_quotient_polynomial
ComputeQuotientPolynomial(protocol, phi) ==
    QuotientPolynomial(ComputeConstraintPolynomials(protocol), phi)

\* ProverProtocol::evaluate_register_polynomials: what it returns
EvaluateRegisterPolynomials(protocol, point) ==
    LET evals == AffineAdditionEvaluations(protocol.registers, point)
    IN  IF PackingUnset(protocol) THEN <<"panic">>
        ELSE IF protocol.variant = "simple"
        THEN <<"without_bitmask", evals[2], evals[4]>>
        ELSE IF protocol.variant = "packed"
        THEN <<"packed",
               Evaluate(PackedCPoly(protocol.registers, PackingChallenge(protocol)), point),
               Evaluate(PackedAccPoly(protocol.registers, PackingChallenge(protocol)), point),
               evals>>
        ELSE <<"counting", evals,
               Evaluate(Interpolate(PartialCounts(protocol.registers)), point)>>

\* ProverProtocol::evaluate_register_polynomials: the builder after it; the
\* basic builder keeps the evaluations of all its registers, the bitmask's
\* included
ProtocolAfterEvaluate(protocol, point) ==
    [protocol EXCEPT !.register_evaluations =
        IF protocol.variant = "simple"
        THEN AffineAdditionEvaluations(protocol.registers, point)
        ELSE EvaluateRegisterPolynomials(protocol, point)]

\* ProverProtocol::compute_linearization_polynomial; unwrapping evaluations
\* that were never stored panics
ComputeLinearizationPolynomial(protocol, phi, zeta) ==
    IF protocol.register_evaluations = None \/ PackingUnset(protocol)
    THEN <<"panic">>
    ELSE LinearizationPolynomial(
             protocol.variant,
             LinearizedPolys(protocol.variant, protocol.registers,
                             PackingChallenge(protocol)),
             protocol.register_evaluations, phi, zeta)


(***************************************************************************)
(* Prover (prover.rs).                                                     *)
(***************************************************************************)
\* Domains::new
DomainsNew(size) == [size |-> size, size_x4 |-> 4 * size]

\* a faulty Prover::new: the keyset is stored as Keyset::new returned it
ProverNewNotAmplified(ks, keyset_comm, kzg_params, empty_transcript) ==
    LET domains == DomainsNew(ks.domain.size)
        t1 == SetProtocolParams(empty_transcript, ks.domain, RawVk(kzg_params))
        t2 == SetKeysetCommitment(t1, keyset_comm)
    IN  [domains |-> domains,
         keyset |-> ks,
         kzg_pk |-> CommitterKey(kzg_params),
         preprocessed_transcript |-> t2]

\* Prover::new
ProverNew(ks, keyset_comm, kzg_params, empty_transcript) ==
    LET domains == DomainsNew(ks.domain.size)
        t1 == SetProtocolParams(empty_transcript, ks.domain, RawVk(kzg_params))
        t2 == SetKeysetCommitment(t1, keyset_comm)
    IN  [domains |-> domains,
         keyset |-> KeysetAmplify(ks),
         kzg_pk |-> CommitterKey(kzg_params),
         preprocessed_transcript |-> t2]

\* CurveGroup::into_affine
IntoAffine(p) == IF p.infinity THEN Identity ELSE Affine(p.x, p.y)

\* the state of one call of prove: its position, its arguments, what it has
\* done (events), the oracle query of its last step and its local variables
IdleCall ==
    [pc |-> "idle", variant |-> "simple", bitmask |-> <<>>, events |-> <<>>,
     query |-> None, transcript |-> None, public_input |-> None,
     protocol |-> None, partial_sums_commitments |-> None, r |-> 0,
     acc_register_commitments |-> None, phi |-> 0, q_poly |-> None,
     q_comm |-> None, zeta |-> None, register_evaluations |-> None,
     q_zeta |-> None, r_poly |-> None, r_zeta_omega |-> None, nus |-> None,
     returned |-> None]

\* RegisterPolynomials::commit
CommitAll(kzg_pk, polys) == [i \in 1 .. Len(polys) |-> KzgCommit(kzg_pk, polys[i])]

\* a commitment of the round could not be made
CommitPanicked(commitments) ==
    \E i \in 1 .. Len(commitments) : commitments[i] = <<"panic">>

\* prove panicked in a step, after it derived the challenge of the step and
\* did what came before the commitment or the opening that failed
Panicked(l, query, events) ==
    [l EXCEPT !.pc = "panicked",
              !.events = @ \o events,
              !.query = query,
              !.transcript = IF query = None THEN @ ELSE query]

\* what prove does once its assertions passed (lines 84-88)
ProveAccepted(prover, variant, bitmask) ==
    LET l == [IdleCall EXCEPT !.variant = variant, !.bitmask = bitmask]
        apk == IntoAffine(KeysetAggregate(prover.keyset, ToBits(bitmask)))
        transcript == prover.preprocessed_transcript
        public_input == PublicInputNew(variant, apk, bitmask)
    IN  [l EXCEPT !.pc = "round1",
                  !.events = <<"aggregate", "clone transcript", "absorb public_input">>,
                  !.public_input = public_input,
                  !.transcript = AppendPublicInput(transcript, public_input)]

\* a faulty prove: the assertion that a bit is set is missing
ProveStartAnyCount(prover, variant, bitmask) ==
    IF BitmaskSize(bitmask) # KeysetSize(prover.keyset)
    THEN [IdleCall EXCEPT !.variant = variant, !.bitmask = bitmask, !.pc = "rejected"]
    ELSE ProveAccepted(prover, variant, bitmask)

\* a faulty prove: the bitmask's length is compared with the domain's size
ProveStartDomainLength(prover, variant, bitmask) ==
    IF BitmaskSize(bitmask) # prover.domains.size \/ ~(CountOnes(bitmask) > 0)
    THEN [IdleCall EXCEPT !.variant = variant, !.bitmask = bitmask, !.pc = "rejected"]
    ELSE ProveAccepted(prover, variant, bitmask)

\* Prover::prove, lines 81-88: the two assertions, the aggregate key, the
\* clone of the preprocessed transcript and the public input
ProveStart(prover, variant, bitmask) ==
    LET l == [IdleCall EXCEPT !.variant = variant, !.bitmask = bitmask]
    IN  IF BitmaskSize(bitmask) # KeysetSize(prover.keyset)
        THEN [l EXCEPT !.pc = "rejected"]
        ELSE IF ~(CountOnes(bitmask) > 0)
        THEN [l EXCEPT !.pc = "rejected"]
        ELSE ProveAccepted(prover, variant, bitmask)

\* Prover::prove, lines 91-96: the registers and the round 1 commitments
ProveRound1(prover, l) ==
    LET protocol == ProtocolInit(l.variant, prover.domains, l.bitmask, prover.keyset)
        partial_sums_polynomials == GetRegisterPolynomialsToCommit1(protocol)
        partial_sums_commitments == CommitAll(prover.kzg_pk, partial_sums_polynomials)
    IN  IF CommitPanicked(partial_sums_commitments)
        THEN Panicked(l, None, <<"init registers">>) ELSE
        [l EXCEPT !.pc = "round2",
                  !.events = @ \o <<"init registers", "commit round 1",
                                    "absorb register_commitments">>,
                  !.query = None,
                  !.protocol = protocol,
                  !.partial_sums_commitments = partial_sums_commitments,
                  !.transcript = AppendRegisterCommitments(@, partial_sums_commitments)]

\* a faulty round 2: the round 2 commitments are absorbed before the bitmask
\* aggregation challenge is derived
ProveRound2AbsorbFirst(prover, l, o) ==
    LET absorbed == Append2ndRoundRegisterCommitments(l.transcript, <<>>)
        query == ChallengeQuery(absorbed, "bitmask_aggregation")
        r == OracleAnswer(o, query)
        acc_register_polynomials == GetRegisterPolynomialsToCommit2(l.protocol, r)
        acc_register_commitments == CommitAll(prover.kzg_pk, acc_register_polynomials)
    IN  IF CommitPanicked(acc_register_commitments)
        THEN Panicked(l, query, <<"challenge r", "registers round 2">>) ELSE
        [l EXCEPT !.pc = "quotient",
                  !.events = @ \o <<"challenge r", "registers round 2",
                                    "commit round 2",
                                    "absorb 2nd_round_register_commitments">>,
                  !.query = query,
                  !.r = r,
                  !.protocol = ProtocolAfterCommit2(@, r),
                  !.acc_register_commitments = acc_register_commitments,
                  !.transcript = query]

\* Prover::prove, lines 100-105: the bitmask aggregation challenge and the
\* round 2 commitments
ProveRound2(prover, l, o) ==
    LET query == ChallengeQuery(l.transcript, "bitmask_aggregation")
        r == OracleAnswer(o, query)
        acc_register_polynomials == GetRegisterPolynomialsToCommit2(l.protocol, r)
        acc_register_commitments == CommitAll(prover.kzg_pk, acc_register_polynomials)
    IN  IF CommitPanicked(acc_register_commitments)
        THEN Panicked(l, query, <<"challenge r", "registers round 2">>) ELSE
        [l EXCEPT !.pc = "quotient",
                  !.events = @ \o <<"challenge r", "registers round 2",
                                    "commit round 2",
                                    "absorb 2nd_round_register_commitments">>,
                  !.query = query,
                  !.r = r,
                  !.protocol = ProtocolAfterCommit2(@, r),
                  !.acc_register_commitments = acc_register_commitments,
                  !.transcript =
                      Append2ndRoundRegisterCommitments(query, acc_register_commitments)]

\* a faulty quotient step: the quotient commitment is not absorbed
ProveQuotientUnabsorbed(prover, l, o) ==
    LET query == ChallengeQuery(l.transcript, "constraints_aggregation")
        phi == OracleAnswer(o, query)
        q_poly == ComputeQuotientPolynomial(l.protocol, phi)
        q_comm == KzgCommit(prover.kzg_pk, q_poly)
    IN  IF q_comm = <<"panic">>
        THEN Panicked(l, query, <<"challenge phi", "quotient">>) ELSE
        [l EXCEPT !.pc = "evaluation",
                  !.events = @ \o <<"challenge phi", "quotient", "commit quotient",
                                    "absorb quotient_commitment">>,
                  !.query = query,
                  !.phi = phi,
                  !.q_poly = q_poly,
                  !.q_comm = q_comm,
                  !.transcript = query]

\* Prover::prove, lines 109-112: the constraint aggregation challenge and the
\* quotient polynomial
ProveQuotient(prover, l, o) ==
    LET query == ChallengeQuery(l.transcript, "constraints_aggregation")
        phi == OracleAnswer(o, query)
        q_poly == ComputeQuotientPolynomial(l.protocol, phi)
        q_comm == KzgCommit(prover.kzg_pk, q_poly)
    IN  IF q_comm = <<"panic">>
        THEN Panicked(l, query, <<"challenge phi", "quotient">>) ELSE
        [l EXCEPT !.pc = "evaluation",
                  !.events = @ \o <<"challenge phi", "quotient", "commit quotient",
                                    "absorb quotient_commitment">>,
                  !.query = query,
                  !.phi = phi,
                  !.q_poly = q_poly,
                  !.q_comm = q_comm,
                  !.transcript = AppendQuotientCommitment(query, q_comm)]

\* Prover::prove, lines 118-124: the evaluation point and the evaluations
ProveEvaluation(prover, l, o) ==
    LET query == ChallengeQuery(l.transcript, "evaluation_point")
        zeta == Point(OracleAnswer(o, query))
        register_evaluations == EvaluateRegisterPolynomials(l.protocol, zeta)
        protocol == ProtocolAfterEvaluate(l.protocol, zeta)
        q_zeta == Evaluate(l.q_poly, zeta)
        zeta_omega == TimesGroupGen(zeta)
        r_poly == ComputeLinearizationPolynomial(protocol, l.phi, zeta)
        r_zeta_omega == Evaluate(r_poly, zeta_omega)
    IN  IF r_poly = <<"panic">>
        THEN [l EXCEPT !.pc = "panicked", !.query = query]
        ELSE [l EXCEPT !.pc = "opening",
                  !.events = @ \o <<"challenge zeta", "evaluate registers",
                                    "evaluate quotient", "linearization",
                                    "absorb evaluations">>,
                  !.query = query,
                  !.zeta = zeta,
                  !.protocol = protocol,
                  !.register_evaluations = register_evaluations,
                  !.q_zeta = q_zeta,
                  !.r_poly = r_poly,
                  !.r_zeta_omega = r_zeta_omega,
                  !.transcript =
                      AppendEvaluations(query, register_evaluations, q_zeta, r_zeta_omega)]

\* Prover::prove, lines 130-153: the aggregation challenges, the two openings
\* and the proof
ProveOpening(prover, l, o) ==
    LET register_polynomials == GetRegisterPolynomialsToOpen(l.protocol) \o <<l.q_poly>>
        query == ChallengeQuery(l.transcript, "kzg_aggregation")
        nus == <<OracleAnswer(o, query), Len(register_polynomials)>>
        w_poly == AggregatePolys(register_polynomials, nus)
        w_at_zeta_proof == KzgOpen(prover.kzg_pk, w_poly, l.zeta)
        r_at_zeta_omega_proof == KzgOpen(prover.kzg_pk, l.r_poly, TimesGroupGen(l.zeta))
        proof == [register_commitments |-> l.partial_sums_commitments,
                  additional_commitments |-> l.acc_register_commitments,
                  q_comm |-> l.q_comm,
                  register_evaluations |-> l.register_evaluations,
                  q_zeta |-> l.q_zeta,
                  r_zeta_omega |-> l.r_zeta_omega,
                  w_at_zeta_proof |-> w_at_zeta_proof,
                  r_at_zeta_omega_proof |-> r_at_zeta_omega_proof]
    IN  IF w_at_zeta_proof = <<"panic">>
        THEN Panicked(l, query, <<"challenge nus">>)
        ELSE IF r_at_zeta_omega_proof = <<"panic">>
        THEN Panicked(l, query, <<"challenge nus", "open w">>) ELSE
        [l EXCEPT !.pc = "done",
                  !.events = @ \o <<"challenge nus", "open w", "open r", "proof">>,
                  !.query = query,
                  !.nus = nus,
                  !.transcript = query,
                  !.returned = <<proof, l.public_input>>]

\* a faulty prove that works on the Prover's transcript instead of a clone:
\* the Prover keeps what the call absorbed
ProverKeepsTranscript(prover, l) ==
    IF l.transcript = None THEN prover
    ELSE [prover EXCEPT !.preprocessed_transcript = l.transcript]

\* prove takes &self: the Prover after a step of prove
ProverAfterProve(prover, l) == prover


(***************************************************************************)
(* Verifier (verifier.rs).                                                 *)
(***************************************************************************)
CommUrs(comm) == comm[2]

CommPoly(comm) == comm[3]

\* a faulty KZG::verify: the value is compared, the opening proof is not
KzgVerifyValueOnly(vk, comm, point, value, proof) ==
    /\ CommUrs(comm) = vk[2]
    /\ value = Evaluate(CommPoly(comm), point)

\* KZG::verify: the proof opens the commitment at the point to the value
KzgVerify(vk, comm, point, value, proof) ==
    /\ CommUrs(comm) = vk[2]
    /\ proof = <<"open", vk[2], CommPoly(comm), point>>
    /\ value = Evaluate(CommPoly(comm), point)

\* the commitment to an aggregate is the same combination of the commitments
AggregateCommitments(vk, comms, nus) ==
    IF \A i \in 1 .. Len(comms) : CommUrs(comms[i]) = vk[2]
    THEN <<"comm", vk[2],
           AggregatePolys([i \in 1 .. Len(comms) |-> CommPoly(comms[i])], nus)>>
    ELSE <<"comm", 0, AggregatePolys(<<>>, nus)>>

AggregateValues(values, nus) == <<"aggval", values, nus>>

\* Verifier::new
VerifierNew(kzg_vk, keyset_comm, empty_transcript) ==
    LET domain == Radix2EvaluationDomain(2 ^ keyset_comm.log_domain_size)
        t1 == SetProtocolParams(empty_transcript, domain, kzg_vk)
        t2 == SetKeysetCommitment(t1, keyset_comm)
    IN  [domain |-> domain,
         pks_comm |-> keyset_comm.pks_comm,
         kzg_vk |-> kzg_vk,
         preprocessed_transcript |-> t2]

\* a commitment to the interpolation of a table over the verifier's domain
IsTableComm(comm, n) ==
    /\ CommPoly(comm)[1] = "poly"
    /\ Len(TableOf(CommPoly(comm))) = n

\* the commitments of a proof in the order the prover opens the polynomials:
\* keyset, (bitmask,) partial sums, (scheme's own registers,) quotient
CommitmentsToOpen(verifier, variant, proof) ==
    LET rc == proof.register_commitments
        ac == proof.additional_commitments
    IN  (IF variant = "simple"
         THEN <<verifier.pks_comm[1], verifier.pks_comm[2], rc[1], rc[2]>>
         ELSE IF variant = "packed"
         THEN <<verifier.pks_comm[1], verifier.pks_comm[2], rc[3], rc[1], rc[2],
                ac[1], ac[2]>>
         ELSE <<verifier.pks_comm[1], verifier.pks_comm[2], rc[3], rc[1], rc[2],
                rc[4]>>)
        \o <<proof.q_comm>>

\* the bitmask of an accountable public input as the verifier evaluates it
PublicBitmaskTable(public_input, n) ==
    Resize(ToBitsAsFieldElements(public_input[3]), n, 0)

\* the registers the commitments of a proof bind the prover to
CommittedRegisters(verifier, variant, public_input, proof) ==
    LET n == verifier.domain.size
        rc == proof.register_commitments
        acc_x == TableOf(CommPoly(rc[1]))
        acc_y == TableOf(CommPoly(rc[2]))
    IN  [bitmask |-> IF variant = "simple"
                     THEN PublicBitmaskTable(public_input, n)
                     ELSE TableOf(CommPoly(rc[3])),
         pks_x |-> TableOf(CommPoly(verifier.pks_comm[1])),
         pks_y |-> TableOf(CommPoly(verifier.pks_comm[2])),
         apk_acc_x_shifted |-> RotateLeft(acc_x),
         apk_acc_y_shifted |-> RotateLeft(acc_y),
         apk_acc_x |-> acc_x,
         apk_acc_y |-> acc_y]

\* the constraints vanish on the domain (the conditional addition everywhere
\* but at the last position) and the accumulator starts at the fixed point and
\* ends at that point plus the public aggregate key
ConstraintsVanish(variant, registers, public_input, proof) ==
    LET n == Len(registers.bitmask)
        apk_plus_h == GroupAdd(point_in_g1_complement, public_input[2])
    IN  /\ \A i \in 1 .. n : BooleanityAt(registers, i) = 0
        /\ \A i \in 1 .. (n - 1) :
              CondAddC1At(registers, i) = 0 /\ CondAddC2At(registers, i) = 0
        /\ registers.apk_acc_x[1] = point_in_g1_complement.x
        /\ registers.apk_acc_y[1] = point_in_g1_complement.y
        /\ registers.apk_acc_x[n] = apk_plus_h.x
        /\ registers.apk_acc_y[n] = apk_plus_h.y
        /\ variant = "packed" =>
              registers.bitmask = PublicBitmaskTable(public_input, n)
        /\ variant = "counting" =>
              /\ TableOf(CommPoly(proof.register_commitments[4]))
                    = PartialCounts(registers)
              /\ Cardinality({i \in 1 .. n : registers.bitmask[i] = 1})
                    = public_input[3]

\* Verifier::verify_simple / verify_packed / verify_counting: the challenges
\* restored from the replayed transcript, the oracle after the replay, and
\* whether the proof is accepted
Verify(verifier, variant, public_input, proof, o) ==
    LET n == verifier.domain.size
        vk == verifier.kzg_vk
        t1 == AppendPublicInput(verifier.preprocessed_transcript, public_input)
        t2 == AppendRegisterCommitments(t1, proof.register_commitments)
        query_r == ChallengeQuery(t2, "bitmask_aggregation")
        r == OracleAnswer(o, query_r)
        o1 == OracleAfter(o, query_r)
        t3 == Append2ndRoundRegisterCommitments(query_r, proof.additional_commitments)
        query_phi == ChallengeQuery(t3, "constraints_aggregation")
        phi == OracleAnswer(o1, query_phi)
        o2 == OracleAfter(o1, query_phi)
        t4 == AppendQuotientCommitment(query_phi, proof.q_comm)
        query_zeta == ChallengeQuery(t4, "evaluation_point")
        zeta == Point(OracleAnswer(o2, query_zeta))
        o3 == OracleAfter(o2, query_zeta)
        t5 == AppendEvaluations(query_zeta, proof.register_evaluations,
                                proof.q_zeta, proof.r_zeta_omega)
        query_nus == ChallengeQuery(t5, "kzg_aggregation")
        values == AsVec(proof.register_evaluations) \o <<proof.q_zeta>>
        nus == <<OracleAnswer(o3, query_nus), Len(values)>>
        o4 == OracleAfter(o3, query_nus)
        comms == CommitmentsToOpen(verifier, variant, proof)
        w_comm == AggregateCommitments(vk, comms, nus)
        w_at_zeta == AggregateValues(values, nus)
        tables == \A i \in 1 .. (Len(comms) - 1) :
                      (variant = "packed" /\ i > 5) \/ IsTableComm(comms[i], n)
        registers == CommittedRegisters(verifier, variant, public_input, proof)
        rc == proof.register_commitments
        ac == proof.additional_commitments
        polys == IF variant = "simple"
                 THEN <<CommPoly(rc[1]), CommPoly(rc[2])>>
                 ELSE IF variant = "packed"
                 THEN <<CommPoly(rc[1]), CommPoly(rc[2]), CommPoly(ac[1]),
                        CommPoly(ac[2])>>
                 ELSE <<CommPoly(rc[1]), CommPoly(rc[2]), CommPoly(rc[4])>>
        evals == IF variant = "simple"
                 THEN <<"affine_addition", proof.register_evaluations[2],
                        Evaluate(Interpolate(PublicBitmaskTable(public_input, n)), zeta),
                        proof.register_evaluations[3]>>
                 ELSE proof.register_evaluations
        r_comm == <<"comm", vk[2],
                    LinearizationPolynomial(variant, polys, evals, phi, zeta)>>
        openings ==
            /\ KzgVerify(vk, w_comm, zeta, w_at_zeta, proof.w_at_zeta_proof)
            /\ KzgVerify(vk, r_comm, TimesGroupGen(zeta), proof.r_zeta_omega,
                         proof.r_at_zeta_omega_proof)
        identity ==
            /\ tables
            /\ variant = "packed" =>
                  /\ CommPoly(ac[1]) = PackedCPoly(registers, r)
                  /\ CommPoly(ac[2]) = PackedAccPoly(registers, r)
            /\ CommPoly(proof.q_comm)
                  = QuotientPolynomial(ConstraintPolynomials(variant, registers, r), phi)
            /\ ConstraintsVanish(variant, registers, public_input, proof)
    IN  [result |-> openings /\ identity,
         r |-> r, phi |-> phi, zeta |-> zeta, nus |-> nus,
         transcript |-> query_nus,
         oracle |-> o4]


(***************************************************************************)
(* A proof changed on its way to the verifier: one field replaced by       *)
(* another value of its kind.                                              *)
(***************************************************************************)
PerturbPoint(point) == <<point[1], point[2] + 2>>

PerturbPoly(poly) ==
    IF poly[1] = "poly"
    THEN <<"poly", [poly[2] EXCEPT ![1] = FAdd(@, 1)]>>
    ELSE IF poly[1] = "quot"
    THEN <<"quot", poly[2], poly[3] + 1>>
    ELSE <<poly[1], poly[2], poly[3] + 1>>

\* another commitment, evaluation or opening
Perturb(term) ==
    IF term[1] = "comm" THEN <<"comm", term[2], PerturbPoly(term[3])>>
    ELSE IF term[1] = "eval" THEN <<"eval", term[2], PerturbPoint(term[3])>>
    ELSE <<"open", term[2], term[3], PerturbPoint(term[4])>>

\* the evaluations of a proof rebuilt from their vector
FromVec(evals, vec) ==
    IF evals[1] = "without_bitmask"
    THEN <<"without_bitmask", <<vec[1], vec[2]>>, <<vec[3], vec[4]>> >>
    ELSE IF evals[1] = "packed"
    THEN <<"packed", vec[6], vec[7],
           <<"affine_addition", <<vec[1], vec[2]>>, vec[3], <<vec[4], vec[5]>> >> >>
    ELSE <<"counting",
           <<"affine_addition", <<vec[1], vec[2]>>, vec[3], <<vec[4], vec[5]>> >>,
           vec[6]>>

ProofFields ==
    {"register_commitments", "additional_commitments", "q_comm",
     "register_evaluations", "q_zeta", "r_zeta_omega", "w_at_zeta_proof",
     "r_at_zeta_omega_proof"}

\* the number of values a field of the proof holds
FieldLen(proof, field) ==
    IF field = "register_commitments" THEN Len(proof.register_commitments)
    ELSE IF field = "additional_commitments" THEN Len(proof.additional_commitments)
    ELSE IF field = "register_evaluations" THEN Len(AsVec(proof.register_evaluations))
    ELSE 1

FieldGet(proof, field, i) ==
    IF field = "register_commitments" THEN proof.register_commitments[i]
    ELSE IF field = "additional_commitments" THEN proof.additional_commitments[i]
    ELSE IF field = "register_evaluations" THEN AsVec(proof.register_evaluations)[i]
    ELSE proof[field]

FieldSet(proof, field, i, v) ==
    IF field = "register_commitments"
    THEN [proof EXCEPT !.register_commitments[i] = v]
    ELSE IF field = "additional_commitments"
    THEN [proof EXCEPT !.additional_commitments[i] = v]
    ELSE IF field = "register_evaluations"
    THEN [proof EXCEPT !.register_evaluations =
             FromVec(@, [AsVec(@) EXCEPT ![i] = v])]
    ELSE [proof EXCEPT ![field] = v]

\* a value of the same kind taken from elsewhere in the proof
Sibling(proof, field, i) ==
    IF field \in {"register_commitments", "additional_commitments",
                  "register_evaluations"}
    THEN FieldGet(proof, field, (i % FieldLen(proof, field)) + 1)
    ELSE IF field = "q_comm" THEN proof.register_commitments[1]
    ELSE IF field = "q_zeta" THEN proof.r_zeta_omega
    ELSE IF field = "r_zeta_omega" THEN proof.q_zeta
    ELSE IF field = "w_at_zeta_proof" THEN proof.r_at_zeta_omega_proof
    ELSE proof.w_at_zeta_proof

Tampers(proof) ==
    {t \in ProofFields \X (1 .. 7) \X {"perturb", "sibling"} :
        t[2] <= FieldLen(proof, t[1])}

TamperValue(proof, t) ==
    IF t[3] = "perturb" THEN Perturb(FieldGet(proof, t[1], t[2]))
    ELSE Sibling(proof, t[1], t[2])

Tampered(proof, t) == FieldSet(proof, t[1], t[2], TamperValue(proof, t))

(***************************************************************************)
(* BLS signatures (bls.rs): a validator is named by its public key; a      *)
(* signature is the sum of its signers' keys with the messages signed, and *)
(* it verifies under a key on a message when every signature in it is on   *)
(* that message and the key is the sum of the signers' keys.               *)
(***************************************************************************)
\* SecretKey::sign
Sign(pk, message) == <<"sig", pk, {message}>>

\* Signature::aggregate
SignatureAggregate(signatures) ==
    <<"sig",
      SumPoints([i \in 1 .. Len(signatures) |-> signatures[i][2]]),
      UNION {signatures[i][3] : i \in 1 .. Len(signatures)}>>

\* PublicKey::verify
BlsVerify(pk, signature, message) ==
    signature[3] = {message} /\ signature[2] = pk

(***************************************************************************)
(* The light client example (examples/recursive.rs).                       *)
(***************************************************************************)
\* hash_commitment: the hash to G2 of the serialized commitment
hash_commitment(commitment) == <<"hash", commitment>>

\* new_era: the cell of CACHE after the call
NewEra == None

\* a faulty get_keyset_commitment: the closure's value replaces the cell
GetKeysetCommitmentRecomputes(cache, f) == <<f, f, TRUE>>

\* get_keyset_commitment(f), f standing for the value the closure returns:
\* the value returned, the cell of CACHE after the call, and whether the
\* closure was invoked
GetKeysetCommitment(cache, f) ==
    IF cache = None THEN <<f, f, TRUE>> ELSE <<cache, cache, FALSE>>

\* ValidatorSet::public_keys / raw_public_keys
PublicKeys(validator_set) == validator_set.validators

\* Validator::approve: the Approval, the cell of CACHE after the call, and
\* whether the commitment was computed
Approve(validator, new_validator_set, kzg_pk, cache) ==
    LET got == GetKeysetCommitment(
                   cache, KeysetCommit(KeysetNew(PublicKeys(new_validator_set)), kzg_pk))
        message == hash_commitment(got[1])
    IN  <<[comm |-> got[1], pk |-> validator, sig |-> Sign(validator, message)],
          got[2], got[3]>>

\* ValidatorSet::new, the random keys being validators
ValidatorSetNew(validators, quorum) == [validators |-> validators, quorum |-> quorum]

\* the approvals of ValidatorSet::rotate: the validators at the positions of
\* approving approve in their order, from position i on; the approvals, the
\* cell of CACHE afterwards, and the number of times the commitment was
\* computed
RECURSIVE ApprovalsFrom(_, _, _, _, _, _)
ApprovalsFrom(i, validator_set, new_validator_set, kzg_pk, approving, cache) ==
    IF i > Len(validator_set.validators) THEN <<<<>>, cache, 0>>
    ELSE IF i \notin approving
    THEN ApprovalsFrom(i + 1, validator_set, new_validator_set, kzg_pk, approving, cache)
    ELSE LET a == Approve(validator_set.validators[i], new_validator_set, kzg_pk, cache)
             rest == ApprovalsFrom(i + 1, validator_set, new_validator_set, kzg_pk,
                                   approving, a[2])
         IN  <<<<a[1]>> \o rest[1], rest[2], rest[3] + (IF a[3] THEN 1 ELSE 0)>>

\* ValidatorSet::rotate, the random choices being the new validators and the
\* positions of the validators that approve
Rotate(validator_set, kzg_pk, validators, approving) ==
    LET new_validator_set == ValidatorSetNew(validators, validator_set.quorum)
        approvals == ApprovalsFrom(1, validator_set, new_validator_set, kzg_pk,
                                   approving, NewEra)
    IN  <<new_validator_set, approvals[1], approvals[2], approvals[3]>>

\* the step of prove a call at l makes next, the random oracle being o
ProveStep(p, l, o) ==
    CASE l.pc = "round1" -> ProveRound1(p, l)
      [] l.pc = "round2" -> ProveRound2(p, l, o)
      [] l.pc = "quotient" -> ProveQuotient(p, l, o)
      [] l.pc = "evaluation" -> ProveEvaluation(p, l, o)
      [] l.pc = "opening" -> ProveOpening(p, l, o)

\* a call that made a step, and the random oracle after the step's query
AfterStep(l, o) == <<l, OracleAfter(o, l.query)>>

\* a call of prove run from l to its end, the random oracle being o: the
\* call and the oracle afterwards
RECURSIVE ProveRun(_, _, _)
ProveRun(p, l, o) ==
    IF l.pc \in {"rejected", "panicked", "done"} THEN <<l, o>>
    ELSE LET s == AfterStep(ProveStep(p, l, o), o) IN ProveRun(p, s[1], s[2])

\* Prover::prove_simple
ProveSimple(p, bitmask, o) == ProveRun(p, ProveStart(p, "simple", bitmask), o)

\* TrustlessHelper::new
TrustlessHelperNew(genesis_validator_set, genesis_validator_set_commitment, params) ==
    [kzg_params |-> params,
     prover |-> ProverNew(KeysetNew(PublicKeys(genesis_validator_set)),
                          genesis_validator_set_commitment, params,
                          TranscriptNew("apk_proof")),
     current_validator_set |-> genesis_validator_set]

\* a faulty bitmask of aggregate_approvals: as many leading validators as
\* there are approvals
ActualSignersBitmaskByCount(validator_set, approvals) ==
    [i \in 1 .. Len(PublicKeys(validator_set)) |-> i <= Len(approvals)]

\* the bitmask of aggregate_approvals: the validators whose key is the key
\* of an approval
ActualSignersBitmask(validator_set, approvals) ==
    LET actual_signers == {approvals[i].pk : i \in 1 .. Len(approvals)}
    IN  [i \in 1 .. Len(PublicKeys(validator_set)) |->
            PublicKeys(validator_set)[i] \in actual_signers]

\* what aggregate_approvals returns once prove_simple has returned proved:
\* a panic when an assertion of prove failed, or the public input, the proof,
\* the aggregate signature and the new commitment, with the helper as it is
\* left and the random oracle after the proof
ApprovalsAggregated(approvals, proved, helper_after) ==
    IF proved[1].pc # "done" THEN <<"panic">>
    ELSE <<"ok",
           <<proved[1].returned[2], proved[1].returned[1],
             SignatureAggregate([i \in 1 .. Len(approvals) |-> approvals[i].sig]),
             approvals[1].comm>>,
           helper_after,
           proved[2]>>

\* a faulty aggregate_approvals: the Prover is left bound to the outgoing set
AggregateApprovalsKeepsProver(helper, new_validator_set, approvals, o) ==
    IF approvals = <<>> THEN <<"panic">>
    ELSE ApprovalsAggregated(
             approvals,
             ProveSimple(helper.prover,
                         ActualSignersBitmask(helper.current_validator_set, approvals), o),
             [helper EXCEPT !.current_validator_set = new_validator_set])

\* TrustlessHelper::aggregate_approvals: a panic when there is no approval;
\* else the helper's Prover proves for the signers among the validators it
\* holds, and the helper is left with the new validator set and a Prover for
\* it, over the commitment of the first approval and a fresh transcript
AggregateApprovals(helper, new_validator_set, approvals, o) ==
    IF approvals = <<>> THEN <<"panic">>
    ELSE ApprovalsAggregated(
             approvals,
             ProveSimple(helper.prover,
                         ActualSignersBitmask(helper.current_validator_set, approvals), o),
             [helper EXCEPT
                 !.prover = ProverNew(KeysetNew(PublicKeys(new_validator_set)),
                                      approvals[1].comm, helper.kzg_params,
                                      TranscriptNew("apk_proof")),
                 !.current_validator_set = new_validator_set])

\* LightClient::init
LightClientInit(kzg_vk, genesis_keyset_commitment, quorum) ==
    [kzg_vk |-> kzg_vk,
     quorum |-> quorum,
     current_validator_set_commitment |-> genesis_keyset_commitment]

\* how verify_aggregates ends once the verifier's run v is known: a panic
\* when an assertion failed, the new commitment stored when none did
AggregatesVerified(light_client, new_validator_set_commitment, passed, v) ==
    IF passed
    THEN <<"ok",
           [light_client EXCEPT
               !.current_validator_set_commitment = new_validator_set_commitment],
           v.oracle>>
    ELSE <<"panic", light_client, v.oracle>>

\* the Verifier verify_aggregates builds
LightClientVerifier(light_client) ==
    VerifierNew(light_client.kzg_vk, light_client.current_validator_set_commitment,
                TranscriptNew("apk_proof"))

\* the first two assertions of verify_aggregates: the proof, then the
\* aggregate signature on the new commitment under the public input's apk
ProofAndSignatureVerify(public_input, aggregate_signature, new_validator_set_commitment, v) ==
    /\ v.result
    /\ BlsVerify(public_input[2], aggregate_signature,
                 hash_commitment(new_validator_set_commitment))

\* a faulty verify_aggregates: the quorum is not asserted
VerifyAggregatesNoQuorum(light_client, public_input, proof, aggregate_signature, new_validator_set_commitment, o) ==
    LET v == Verify(LightClientVerifier(light_client), "simple", public_input, proof, o)
    IN  AggregatesVerified(
            light_client, new_validator_set_commitment,
            ProofAndSignatureVerify(public_input, aggregate_signature,
                                    new_validator_set_commitment, v),
            v)

\* LightClient::verify_aggregates: whether it returned or an assertion
\* failed, the light client afterwards and the random oracle afterwards
VerifyAggregates(light_client, public_input, proof, aggregate_signature, new_validator_set_commitment, o) ==
    LET n_signers == CountOnes(public_input[3])
        v == Verify(LightClientVerifier(light_client), "simple", public_input, proof, o)
    IN  AggregatesVerified(
            light_client, new_validator_set_commitment,
            /\ ProofAndSignatureVerify(public_input, aggregate_signature,
                                       new_validator_set_commitment, v)
            /\ n_signers >= light_client.quorum,
            v)

(***************************************************************************)
(* The subgroup check of BW6-761 (endo.rs).  The curve y^2 = x^3 - 1 over   *)
(* its 761 bit field is replaced by y^2 = x^3 + Bw6CoeffB over the field of *)
(* FqModulus elements: 28 points, G1 the subgroup of order FrModulus, and   *)
(* OMEGA a cube root of one that acts on G1 as the multiplication by        *)
(* Lambda.  U stands for the seed of BLS12-377.                             *)
(***************************************************************************)
\* ark_bw6_761::Fq
FqModulus == 19

\* the constant term of the curve's equation
Bw6CoeffB == 8

\* ark_bw6_761::Fr: the order of G1
FrModulus == 7

\* OMEGA
OMEGA == 11

\* LAMBDA of the tests
Lambda == 2

\* U = ark_bls12_377::Config::X, the integer whose bits are 100110
U == 38

Fq == 0 .. (FqModulus - 1)

FqInv(a) == CHOOSE b \in Fq : (a * b) % FqModulus = 1

\* the points of the curve; G1Projective::zero is Identity
Bw6Points ==
    {Identity} \cup {Affine(px, py) : <<px, py>> \in
        {xy \in Fq \X Fq :
            (xy[2] * xy[2]) % FqModulus
                = (xy[1] * xy[1] * xy[1] + Bw6CoeffB) % FqModulus}}

\* the sum of two points of G1Projective (add_assign, +)
Bw6Add(p, q) ==
    IF p.infinity THEN q
    ELSE IF q.infinity THEN p
    ELSE IF p.x = q.x /\ (p.y + q.y) % FqModulus = 0 THEN Identity
    ELSE LET slope == IF p.x = q.x
                      THEN (3 * p.x * p.x * FqInv((2 * p.y) % FqModulus)) % FqModulus
                      ELSE ((q.y + FqModulus - p.y)
                              * FqInv((q.x + FqModulus - p.x) % FqModulus)) % FqModulus
             x3 == (slope * slope + 2 * FqModulus - p.x - q.x) % FqModulus
             y3 == (slope * (p.x + FqModulus - x3) + FqModulus - p.y) % FqModulus
         IN  Affine(x3, y3)

\* the difference of two points of G1Projective (-)
Bw6Sub(p, q) ==
    Bw6Add(p, IF q.infinity THEN q ELSE Affine(q.x, (FqModulus - q.y) % FqModulus))

\* double_in_place
Bw6Double(p) == Bw6Add(p, p)

\* BitIteratorBE::without_leading_zeros: the bits of n, the most significant
\* first, from its first set bit on
RECURSIVE BitIteratorBE(_)
BitIteratorBE(n) ==
    IF n = 0 THEN <<>> ELSE Append(BitIteratorBE(n \div 2), n % 2 = 1)

\* the loop of mul_by_u from bit i on: double, then add p when the bit is set
RECURSIVE MulByULoop(_, _, _, _)
MulByULoop(bits, i, res, p) ==
    IF i > Len(bits) THEN res
    ELSE MulByULoop(bits, i + 1,
                    IF bits[i] THEN Bw6Add(Bw6Double(res), p) ELSE Bw6Double(res), p)

\* a faulty loop of mul_by_u: add p when the bit is set, then double
RECURSIVE MulByULoopAddFirst(_, _, _, _)
MulByULoopAddFirst(bits, i, res, p) ==
    IF i > Len(bits) THEN res
    ELSE MulByULoopAddFirst(bits, i + 1,
                            Bw6Double(IF bits[i] THEN Bw6Add(res, p) ELSE res), p)

\* a faulty mul_by_u: the addition comes before the doubling
mul_by_u_add_first(p) == MulByULoopAddFirst(BitIteratorBE(U), 1, Identity, p)

\* mul_by_u
mul_by_u(p) == MulByULoop(BitIteratorBE(U), 1, Identity, p)

\* glv_endomorphism_proj: phi((x, y)) = (OMEGA x, y)
glv_endomorphism_proj(p) ==
    IF p.infinity THEN p ELSE Affine((p.x * OMEGA) % FqModulus, p.y)

\* the last line of subgroup_check
SubgroupCheckSum(p, up, u2p, u3p) ==
    Bw6Add(Bw6Add(up, p), glv_endomorphism_proj(Bw6Add(Bw6Sub(u3p, u2p), p)))

\* the powers of u of subgroup_check, each from the one before
SubgroupCheckFrom(p, up, u2p) == SubgroupCheckSum(p, up, u2p, mul_by_u(u2p))

\* subgroup_check
subgroup_check(p) ==
    SubgroupCheckFrom(p, mul_by_u(p), mul_by_u(mul_by_u(p))).infinity

(***************************************************************************)
(* The state machine.                                                      *)
(***************************************************************************)
VARIABLES
    setup,        \* where the caller is: "keyset", "committed", "failed", "ready",
                  \* "rebuilt"
    keyset,       \* the caller's Keyset
    kzg_params,   \* the URS
    keyset_comm,  \* the KeysetCommitment, once commit returned it
    prover,       \* the Prover, once Prover::new returned it
    calls,        \* the calls of prove
    oracle,       \* the random oracle's queries
    ver,          \* the verifier's run
    bench,        \* a direct call of a library function: its input and output
    demo          \* the light client example: the chain, the helper, the light client

vars == <<setup, keyset, kzg_params, keyset_comm, prover, calls, oracle, ver, bench,
          demo>>

Calls == {1, 2}

\* the parameters: one set that holds the keyset of a domain of two positions
\* and no quotient, one that holds the quotient of that domain and the keyset
\* of a domain of four positions, and one that holds the quotient of a domain
\* of four positions
URSs ==
    { [urs |-> 1, max_degree |-> 1], [urs |-> 2, max_degree |-> 7],
      [urs |-> 3, max_degree |-> 9] }

KeyLists == SeqsUpTo(G1Keys, 1, MaxKeys)

\* the bitmasks prove is called with: every bitmask of the keyset's length,
\* and the all-zero and all-one bitmasks one bit shorter and one bit longer
Bitmasks(ks) ==
    [1 .. KeysetSize(ks) -> BOOLEAN]
      \cup { [i \in 1 .. k |-> b] :
               k \in {KeysetSize(ks) - 1, KeysetSize(ks) + 1}, b \in BOOLEAN }

IdleBench == [op |-> "none", input |-> <<>>, output |-> <<>>]

IdleVer ==
    [pc |-> "idle", call |-> 0, tamper |-> None, proof |-> None,
     result |-> FALSE, r |-> 0, phi |-> 0, zeta |-> None, nus |-> None,
     transcript |-> None]

\* the light client example is not running
IdleDemo == [pc |-> "none"]

Init ==
    /\ setup = "keyset"
    /\ keyset \in {KeysetNew(pks) : pks \in KeyLists}
    /\ kzg_params \in URSs
    /\ keyset_comm = None
    /\ prover = None
    /\ calls = [c \in Calls |-> IdleCall]
    /\ oracle = <<>>
    /\ ver = IdleVer
    /\ bench = IdleBench
    /\ demo = IdleDemo

\* Keyset::commit
Commit ==
    /\ setup = "keyset"
    /\ IF CommitFits(keyset, CommitterKey(kzg_params))
       THEN /\ keyset_comm' = KeysetCommit(keyset, CommitterKey(kzg_params))
            /\ setup' = "committed"
       ELSE /\ keyset_comm' = keyset_comm
            /\ setup' = "failed"
    /\ UNCHANGED <<keyset, kzg_params, prover, calls, oracle, ver, bench, demo>>

\* Prover::new
NewProver ==
    /\ setup = "committed"
    /\ prover' = ProverNew(keyset, keyset_comm, kzg_params, TranscriptNew("apk_proof"))
    /\ setup' = "ready"
    /\ UNCHANGED <<keyset, kzg_params, keyset_comm, calls, oracle, ver, bench, demo>>

\* Prover::new once more, after the first call of prove returned: a second
\* Prover, built from the same keys, the same parameters and the same label,
\* the keyset and its commitment made anew; the next call runs on it
NewProverAgain ==
    /\ setup = "ready"
    /\ calls[1].pc = "done"
    /\ calls[2].pc = "idle"
    /\ prover' = ProverNew(KeysetNew(keyset.pks),
                           KeysetCommit(KeysetNew(keyset.pks), CommitterKey(kzg_params)),
                           kzg_params, TranscriptNew("apk_proof"))
    /\ setup' = "rebuilt"
    /\ UNCHANGED <<keyset, kzg_params, keyset_comm, calls, oracle, ver, bench, demo>>

\* a step of call c of prove that takes the call to l
Step(c, l) ==
    /\ ver.pc = "idle"
    /\ calls' = [calls EXCEPT ![c] = l]
    /\ oracle' = OracleAfter(oracle, l.query)
    /\ prover' = ProverAfterProve(prover, l)
    /\ UNCHANGED <<setup, keyset, kzg_params, keyset_comm, ver, bench, demo>>

\* prove_simple / prove_packed / prove_counting is called: one call at a
\* time, and none after a call that panicked
Prove(c, variant, bitmask) ==
    /\ setup \in {"ready", "rebuilt"}
    /\ calls[c].pc = "idle"
    /\ \A d \in Calls : d < c => calls[d].pc = "done"
    /\ Step(c, ProveStart(prover, variant, bitmask))

Round1(c) ==
    /\ calls[c].pc = "round1"
    /\ Step(c, ProveRound1(prover, calls[c]))

Round2(c) ==
    /\ calls[c].pc = "round2"
    /\ Step(c, ProveRound2(prover, calls[c], oracle))

Quotient(c) ==
    /\ calls[c].pc = "quotient"
    /\ Step(c, ProveQuotient(prover, calls[c], oracle))

Evaluation(c) ==
    /\ calls[c].pc = "evaluation"
    /\ Step(c, ProveEvaluation(prover, calls[c], oracle))

Opening(c) ==
    /\ calls[c].pc = "opening"
    /\ Step(c, ProveOpening(prover, calls[c], oracle))

\* the verifier's run on the public input of call c and the proof it is given
VerifierRun(c, tamper, proof) ==
    LET l == calls[c]
        verifier == VerifierNew(RawVk(kzg_params), keyset_comm,
                                TranscriptNew("apk_proof"))
        v == Verify(verifier, l.variant, l.returned[2], proof, oracle)
    IN  /\ ver' = [pc |-> "done", call |-> c, tamper |-> tamper, proof |-> proof,
                   result |-> v.result, r |-> v.r, phi |-> v.phi,
                   zeta |-> v.zeta, nus |-> v.nus, transcript |-> v.transcript]
        /\ oracle' = v.oracle
        /\ UNCHANGED <<setup, keyset, kzg_params, keyset_comm, prover, calls, bench,
                       demo>>

\* the verifier is given what prove returned; the runs modelled are those on
\* a Prover's first call, before the Prover is used again
VerifyReturned(c) ==
    /\ ver.pc = "idle"
    /\ calls[c].pc = "done"
    /\ \A d \in Calls \ {c} : calls[d].pc = "idle"
    /\ VerifierRun(c, None, calls[c].returned[1])

\* the verifier is given what prove returned with one field changed
VerifyTampered(c, t) ==
    /\ ver.pc = "idle"
    /\ calls[c].pc = "done"
    /\ \A d \in Calls \ {c} : calls[d].pc = "idle"
    /\ t \in Tampers(calls[c].returned[1])
    /\ TamperValue(calls[c].returned[1], t) # FieldGet(calls[c].returned[1], t[1], t[2])
    /\ VerifierRun(c, t, Tampered(calls[c].returned[1], t))

Next ==
    \/ Commit
    \/ NewProver
    \/ NewProverAgain
    \/ \E c \in Calls, variant \in Variants, bitmask \in Bitmasks(keyset) :
          Prove(c, variant, bitmask)
    \/ \E c \in Calls : Round1(c)
    \/ \E c \in Calls : Round2(c)
    \/ \E c \in Calls : Quotient(c)
    \/ \E c \in Calls : Evaluation(c)
    \/ \E c \in Calls : Opening(c)
    \/ \E c \in Calls : VerifyReturned(c)
    \/ \E c \in Calls, t \in ProofFields \X (1 .. 7) \X {"perturb", "sibling"} :
          VerifyTampered(c, t)

Spec == Init /\ [][Next]_vars

(***************************************************************************)
(* Two calls of prove on one Prover at the same time: prove takes &self, so *)
(* two threads may share the Prover and their steps interleave in any      *)
(* order.                                                                  *)
(***************************************************************************)
\* the keys of the shared Prover's keyset
ConcurrentKeyLists == { <<G1Generator, G1Generator>> }

ConcurrentInit ==
    /\ setup = "ready"
    /\ keyset \in {KeysetNew(pks) : pks \in ConcurrentKeyLists}
    /\ kzg_params \in {u \in URSs : CommitFits(keyset, CommitterKey(u))}
    /\ keyset_comm = KeysetCommit(keyset, CommitterKey(kzg_params))
    /\ prover = ProverNew(keyset, keyset_comm, kzg_params, TranscriptNew("apk_proof"))
    /\ calls = [c \in Calls |-> IdleCall]
    /\ oracle = <<>>
    /\ ver = IdleVer
    /\ bench = IdleBench
    /\ demo = IdleDemo

\* prove is called while another call may be running
ProveConcurrent(c, variant, bitmask) ==
    /\ setup = "ready"
    /\ calls[c].pc = "idle"
    /\ Step(c, ProveStart(prover, variant, bitmask))

NextConcurrent ==
    \/ \E c \in Calls, variant \in Variants, bitmask \in Bitmasks(keyset) :
          ProveConcurrent(c, variant, bitmask)
    \/ \E c \in Calls : Round1(c)
    \/ \E c \in Calls : Round2(c)
    \/ \E c \in Calls : Quotient(c)
    \/ \E c \in Calls : Evaluation(c)
    \/ \E c \in Calls : Opening(c)

SpecConcurrent == ConcurrentInit /\ [][NextConcurrent]_vars

(***************************************************************************)
(* The library called directly: the functions of keyset.rs and             *)
(* constraints.rs on inputs of the caller's choice, as the tests and the   *)
(* examples call them.  bench holds the last call.                         *)
(***************************************************************************)
\* the keys of a caller's list: keys of G1, the padding point among them
BenchKeys == G1Keys \cup {hash_to_curve}

BenchKeyLists == SeqsUpTo(BenchKeys, 1, MaxKeys + 1)

\* the parameters the library is called with: a set too small for the
\* polynomials of the longer key lists and a set that holds them all
BenchURSs == {u \in URSs : u.max_degree <= 7}

LibInit ==
    /\ setup = "library"
    /\ keyset = KeysetNew(<<G1Generator>>)
    /\ kzg_params \in BenchURSs
    /\ keyset_comm = None
    /\ prover = None
    /\ calls = [c \in Calls |-> IdleCall]
    /\ oracle = <<>>
    /\ ver = IdleVer
    /\ bench = IdleBench
    /\ demo = IdleDemo

\* a call that takes input and returns output: one call a run
Call(op, input, output) ==
    /\ bench.op = "none"
    /\ bench' = [op |-> op, input |-> input, output |-> output]
    /\ UNCHANGED <<setup, keyset, kzg_params, keyset_comm, prover, calls, oracle, ver,
                   demo>>

\* Keyset::new(pks)
KeysetNewCall(pks) == Call("Keyset::new", <<pks>>, <<KeysetNew(pks)>>)

\* Keyset::new(pks).aggregate(bitmask): the assertion on the bitmask's length
\* panics, or the sum is returned
KeysetAggregateCall(pks, bitmask) ==
    LET ks == KeysetNew(pks)
    IN  Call("Keyset::aggregate", <<pks, bitmask>>,
             IF Len(bitmask) # KeysetSize(ks)
             THEN <<"panic">>
             ELSE <<"ok", KeysetAggregate(ks, bitmask)>>)

\* Keyset::commit takes &self: the keyset after the call
KeysetAfterCommit(ks) == ks

\* Keyset::new(pks).commit(kzg_pk): the assertion on the domain's size
\* panics, or the commitment is returned
CommitResult(pks, kzg_pk) ==
    LET ks == KeysetNew(pks)
    IN  IF ~CommitFits(ks, kzg_pk)
        THEN <<"panic">>
        ELSE <<"ok", KeysetCommit(ks, kzg_pk), KeysetAfterCommit(ks)>>

KeysetCommitCall(pks) ==
    Call("Keyset::commit", <<pks, kzg_params>>,
         CommitResult(pks, CommitterKey(kzg_params)))

\* two parties, each with a key list, each evaluating
\* Keyset::new(pks).commit(kzg_pk): what each gets, and the padded keys each
\* committed to
KeysetCommitPairCall(pks1, pks2) ==
    Call("Keyset::commit twice", <<pks1, pks2, kzg_params>>,
         <<CommitResult(pks1, CommitterKey(kzg_params)),
           CommitResult(pks2, CommitterKey(kzg_params)),
           PaddedPks(KeysetNew(pks1)),
           PaddedPks(KeysetNew(pks2))>>)

\* the registers the constraints are called on: a bitmask register of field
\* values over a domain of 2 or 4 positions, the other registers zero, as the
\* test of the booleanity constraint builds them
BenchFieldValues == {0, 1, 2, FieldModulus - 1}

BenchRegisters == UNION { [1 .. n -> BenchFieldValues] : n \in {2, 4} }

DummyRegisters(n) == <<[i \in 1 .. n |-> 0], [i \in 1 .. n |-> 0]>>

\* Constraints::compute_bitmask_booleanity_constraint_polynomial on
\* Registers::new_unchecked(bitmask, dummy, dummy, dummy)
BooleanityCall(bitmask) ==
    LET dummy == DummyRegisters(Len(bitmask))
        registers == RegistersNewUnchecked(bitmask, dummy, dummy, dummy)
    IN  Call("booleanity", <<bitmask>>,
             <<ComputeBitmaskBooleanityConstraintPolynomial(registers)>>)

\* the points the accumulator and the keys of a register hold
BenchPoints ==
    {G1Generator, Neg(G1Generator), point_in_g1_complement,
     GroupAdd(point_in_g1_complement, G1Generator)}

BenchPointLists == [1 .. 2 -> BenchPoints]

\* Constraints::compute_conditional_affine_addition_constraint_polynomials on
\* Registers::new(bitmask, pks, apk_acc) over the domain of the keys
ConditionalAffineAdditionCall(bitmask, pks, acc) ==
    LET apk_acc == <<[i \in 1 .. Len(acc) |-> acc[i].x],
                     [i \in 1 .. Len(acc) |-> acc[i].y]>>
        registers == RegistersNewAmplified(Len(pks), bitmask, pks, apk_acc)
    IN  Call("conditional affine addition", <<bitmask, pks, acc>>,
             ComputeConditionalAffineAdditionConstraintPolynomials(registers))

\* the accumulators Registers::new is given: the four points in each of their
\* rotations, one point in every position, and the accumulator of no position
BenchAccumulators ==
    LET pts == <<point_in_g1_complement,
                 GroupAdd(point_in_g1_complement, G1Generator),
                 G1Generator, Neg(G1Generator)>>
    IN  { [i \in 1 .. Len(pts) |-> pts[((i + k) % Len(pts)) + 1]] : k \in 1 .. Len(pts) }
          \cup { [i \in 1 .. Len(pts) |-> pts[1]] }
          \cup { <<>> }

\* the padded keys of the keysets whose domain has as many positions
BenchPaddedKeys ==
    { PaddedPks(KeysetNew(pks)) :
        pks \in { <<G1Generator, Neg(G1Generator)>>,
                  <<G1Generator, G1Generator, Neg(G1Generator)>> } }

\* Registers::new(domains, bitmask, pks, apk_acc): the registers it hands to
\* new_unchecked, and the amplified registers it returns
RegistersNewCall(bitmask, pks, acc) ==
    LET apk_acc == <<[i \in 1 .. Len(acc) |-> acc[i].x],
                     [i \in 1 .. Len(acc) |-> acc[i].y]>>
    IN  Call("Registers::new", <<bitmask, pks, apk_acc>>,
             <<RegistersNew(Len(pks), bitmask, pks, apk_acc),
               RegistersNewAmplified(Len(pks), bitmask, pks, apk_acc)>>)

\* PackedRegisterBuilder::get_1st_round_register_polynomials (P1 is
\* PartialSumsPolynomials): the two partial sums polynomials.  The builder
\* prove_packed runs is the one whose first round commitments have the type
\* PartialSumsAndBitmaskCommitments of PackedProof, which
\* GetRegisterPolynomialsToCommit1 gives.
Get1stRoundRegisterPolynomials(builder) == PartialSumsPolys(builder.registers)

\* PackedRegisterBuilder: init, then each method called before and after
\* the second round call with challenge r
PackedInit(pks, bitmask) ==
    ProtocolInit("packed", DomainsNew(KeysetNew(pks).domain.size), bitmask,
                 KeysetNew(pks))

PackedMethods(builder, r, point) ==
    <<EvaluateRegisterPolynomials(builder, point),
      ComputeLinearizationPolynomial(ProtocolAfterEvaluate(builder, point), r, point),
      ComputeConstraintPolynomials(builder),
      GetRegisterPolynomialsToOpen(builder)>>

PackedRegisterBuilderCall(pks, bitmask, r, point) ==
    Call("PackedRegisterBuilder", <<pks, bitmask, r, point>>,
         [builder |-> ProtocolAfterCommit2(PackedInit(pks, bitmask), r),
          after |-> PackedMethods(ProtocolAfterCommit2(PackedInit(pks, bitmask), r),
                                  r, point),
          before |-> PackedMethods(PackedInit(pks, bitmask), r, point),
          first_round_after |->
              Get1stRoundRegisterPolynomials(
                  ProtocolAfterCommit2(PackedInit(pks, bitmask), r)),
          first_round_before |-> Get1stRoundRegisterPolynomials(PackedInit(pks, bitmask)),
          init |-> PackedInit(pks, bitmask),
          second_round |-> GetRegisterPolynomialsToCommit2(PackedInit(pks, bitmask), r)])

\* the calls made on CACHE: new_era, or get_keyset_commitment with a closure
\* that returns the commitment to one key
CacheClosures(kzg_pk) == { KeysetCommit(KeysetNew(<<pk>>), kzg_pk) : pk \in G1Keys }

CacheOps(kzg_pk) == { <<"new_era">> } \cup { <<"get", f>> : f \in CacheClosures(kzg_pk) }

\* the calls of script made one after another on the cell cache: for
\* new_era the cell afterwards, for get_keyset_commitment what
\* GetKeysetCommitment gives
RECURSIVE CacheRun(_, _)
CacheRun(script, cache) ==
    IF script = <<>> THEN <<>>
    ELSE IF Head(script)[1] = "new_era"
    THEN << <<NewEra, NewEra, FALSE>> >> \o CacheRun(Tail(script), NewEra)
    ELSE LET got == GetKeysetCommitment(cache, Head(script)[2])
         IN  <<got>> \o CacheRun(Tail(script), got[2])

\* new_era and get_keyset_commitment called as script says, on the CACHE of
\* a thread that has made no call
CacheCall(script) == Call("CACHE", script, CacheRun(script, None))

\* mul_by_u
MulByUCall(p) == Call("mul_by_u", <<p>>, <<mul_by_u(p)>>)

\* glv_endomorphism_proj
GlvEndomorphismProjCall(p) ==
    Call("glv_endomorphism_proj", <<p>>, <<glv_endomorphism_proj(p)>>)

\* subgroup_check
SubgroupCheckCall(p) == Call("subgroup_check", <<p>>, <<subgroup_check(p)>>)

LibNext ==
    \/ \E p \in Bw6Points : MulByUCall(p)
    \/ \E p \in Bw6Points : GlvEndomorphismProjCall(p)
    \/ \E p \in Bw6Points : SubgroupCheckCall(p)
    \/ \E script \in SeqsUpTo(CacheOps(CommitterKey(kzg_params)), 1, MaxCacheCalls) :
          CacheCall(script)
    \/ \E pks \in KeyLists, r \in 1 .. 2, id \in 1 .. 2 :
          \E bitmask \in [1 .. Len(pks) -> BOOLEAN] :
             PackedRegisterBuilderCall(pks, bitmask, r, Point(id))
    \/ \E pks \in BenchPaddedKeys, acc \in BenchAccumulators :
          \E bitmask \in SeqsUpTo(BOOLEAN, 0, Len(pks) - 1) :
             RegistersNewCall(bitmask, pks, acc)
    \/ \E bitmask \in BenchRegisters : BooleanityCall(bitmask)
    \/ \E bitmask \in [1 .. 2 -> BOOLEAN], pks \in BenchPointLists,
           acc \in BenchPointLists :
          ConditionalAffineAdditionCall(bitmask, pks, acc)
    \/ \E pks \in BenchKeyLists : KeysetCommitCall(pks)
    \/ \E pks1, pks2 \in BenchKeyLists : KeysetCommitPairCall(pks1, pks2)
    \/ \E pks \in BenchKeyLists : KeysetNewCall(pks)
    \/ \E pks \in BenchKeyLists :
          \E bitmask \in Bitmasks(KeysetNew(pks)) : KeysetAggregateCall(pks, bitmask)

LibSpec == LibInit /\ [][LibNext]_vars

(***************************************************************************)
(* The light client example (examples/recursive.rs, main): a chain whose   *)
(* validator set changes every era, a helper that proves each change and a *)
(* light client that follows the chain by the helper's proofs.             *)
(***************************************************************************)
\* main, lines 353-381: the genesis validator set, the helper and the light
\* client
DemoStart(log_n, params, validators) ==
    LET keyset_size == 2 ^ log_n - 1
        quorum == ((keyset_size * 2) \div 3) + 1
        genesis_validator_set == ValidatorSetNew(validators, quorum)
        genesis_validator_set_commitment ==
            KeysetCommit(KeysetNew(PublicKeys(genesis_validator_set)),
                         CommitterKey(params))
    IN  [pc |-> "rotate",
         cache |-> None,
         new_validator_set |-> None,
         approvals |-> <<>>,
         current_validator_set |-> genesis_validator_set,
         helper |-> TrustlessHelperNew(genesis_validator_set,
                                       genesis_validator_set_commitment, params),
         light_client |-> LightClientInit(RawVk(params),
                                          genesis_validator_set_commitment, quorum),
         era |-> 1,
         closure_calls |-> 0,
         submitted |-> None,
         last |-> None]

\* the validators ValidatorSet::new may draw: their keys are keys of G1, and
\* of the lists that differ only in the validators' order one is drawn
ValidatorLists(size) ==
    { [i \in 1 .. size |-> IF i <= k THEN G1Generator ELSE Neg(G1Generator)] :
        k \in 0 .. size }

\* the values of log_n main is run with: it makes 2^log_n - 1 validators, at
\* most one more than the longest key list
LogNs == {log_n \in 1 .. MaxKeys : 2 ^ log_n - 1 <= MaxKeys + 1}

\* setup::generate_for_domain(log_n): the values of log_n the parameters are
\* large enough for
GeneratedFor(params) == {log_n \in LogNs : 3 * 2 ^ log_n - 3 <= params.max_degree}

DemoInit ==
    /\ setup = "example"
    /\ kzg_params \in URSs
    /\ demo \in UNION { { DemoStart(log_n, kzg_params, validators) :
                            validators \in ValidatorLists(2 ^ log_n - 1) } :
                          log_n \in GeneratedFor(kzg_params) }
    /\ keyset = KeysetNew(PublicKeys(demo.current_validator_set))
    /\ keyset_comm = KeysetCommit(keyset, CommitterKey(kzg_params))
    /\ prover = None
    /\ calls = [c \in Calls |-> IdleCall]
    /\ oracle = <<>>
    /\ ver = IdleVer
    /\ bench = IdleBench

\* main, line 385: current_validator_set.rotate returned r
DemoRotated(r) ==
    demo' = [demo EXCEPT !.pc = "aggregate",
                         !.new_validator_set = r[1],
                         !.approvals = r[2],
                         !.cache = r[3],
                         !.closure_calls = r[4]]

DemoRotate(validators, approving) ==
    /\ demo.pc = "rotate"
    /\ DemoRotated(Rotate(demo.current_validator_set, CommitterKey(kzg_params),
                          validators, approving))
    /\ UNCHANGED <<setup, keyset, kzg_params, keyset_comm, prover, calls, oracle, ver,
                   bench>>

\* main, lines 387-388: helper.aggregate_approvals ended as r
DemoAggregated(r) ==
    IF r[1] = "panic"
    THEN /\ demo' = [demo EXCEPT !.pc = "panicked"]
         /\ oracle' = oracle
    ELSE /\ demo' = [demo EXCEPT !.pc = "verify",
                                 !.submitted = r[2],
                                 !.helper = r[3]]
         /\ oracle' = r[4]

DemoAggregate ==
    /\ demo.pc = "aggregate"
    /\ DemoAggregated(AggregateApprovals(demo.helper, demo.new_validator_set,
                                         demo.approvals, oracle))
    /\ UNCHANGED <<setup, keyset, kzg_params, keyset_comm, prover, calls, ver, bench>>

\* what the light client is given: what the helper returned, or that with
\* one part replaced by a helper that is not honest
DemoTampers == {"none", "proof", "bitmask", "signature", "commitment"}

Submission(submitted, t) ==
    LET public_input == submitted[1]
        proof == submitted[2]
        aggregate_signature == submitted[3]
        new_validator_set_commitment == submitted[4]
    IN  CASE t = "none" -> submitted
          [] t = "proof" ->
                [submitted EXCEPT ![2] = Tampered(proof, <<"q_zeta", 1, "perturb">>)]
          [] t = "bitmask" ->
                [submitted EXCEPT ![1] =
                    AccountablePublicInputNew(
                        public_input[2],
                        [i \in 1 .. Len(public_input[3]) |-> TRUE])]
          [] t = "signature" ->
                [submitted EXCEPT ![3] =
                    <<"sig", GroupAdd(aggregate_signature[2], G1Generator),
                      aggregate_signature[3]>>]
          [] t = "commitment" ->
                [submitted EXCEPT ![4] =
                    [new_validator_set_commitment EXCEPT !.log_domain_size = @ + 1]]

\* main, lines 390-397: light_client.verify_aggregates was given args and
\* ended as r; when it returned, the new validator set becomes the current
\* one; last keeps the light client before the call, the arguments and how
\* the call ended
DemoVerified(args, r) ==
    /\ demo' = [demo EXCEPT
           !.pc = IF r[1] = "panic" THEN "panicked"
                  ELSE IF demo.era = MaxEras THEN "finished" ELSE "rotate",
           !.current_validator_set =
               IF r[1] = "panic" THEN @ ELSE demo.new_validator_set,
           !.light_client = r[2],
           !.era = IF r[1] = "panic" THEN @ ELSE @ + 1,
           !.last = <<demo.light_client, args, r[1]>>]
    /\ oracle' = r[3]

DemoSubmit(args) ==
    DemoVerified(args, VerifyAggregates(demo.light_client, args[1], args[2], args[3],
                                        args[4], oracle))

DemoVerify(t) ==
    /\ demo.pc = "verify"
    /\ t # "none" => Submission(demo.submitted, t) # demo.submitted
    /\ DemoSubmit(Submission(demo.submitted, t))
    /\ UNCHANGED <<setup, keyset, kzg_params, keyset_comm, prover, calls, ver, bench>>

DemoNext ==
    \/ \E validators \in ValidatorLists(Len(demo.current_validator_set.validators)),
          approving \in SUBSET (1 .. Len(demo.current_validator_set.validators)) :
          DemoRotate(validators, approving)
    \/ DemoAggregate
    \/ \E t \in DemoTampers : DemoVerify(t)

SpecDemo == DemoInit /\ [][DemoNext]_vars

(***************************************************************************)
(* Properties.                                                             *)
(***************************************************************************)
\* a call of prove that was refused with nothing done: no aggregate key, no
\* transcript, no public input, no commitment, nothing returned
NothingDone(l) ==
    /\ l.pc = "rejected"
    /\ l.events = <<>>
    /\ l.query = None
    /\ l.transcript = None
    /\ l.public_input = None
    /\ l.partial_sums_commitments = None
    /\ l.q_comm = None
    /\ l.returned = None

\* the sum of the keys a bitmask selects
SelectedSum(pks, bitmask) ==
    SumPoints([i \in 1 .. Len(pks) |-> IF bitmask[i] THEN pks[i] ELSE Identity])

\* the number of set bits, counted bit by bit
RECURSIVE HammingWeight(_)
HammingWeight(bitmask) ==
    IF bitmask = <<>> THEN 0
    ELSE (IF Head(bitmask) THEN 1 ELSE 0) + HammingWeight(Tail(bitmask))

\* the verifier ran on exactly what call c of prove returned
VerifiedUnmodified == ver.pc = "done" /\ ver.tamper = None

\* C1: completeness. For every keyset and every bitmask of the keyset's length
\* with a bit set, what prove_simple / prove_packed / prove_counting returned
\* is accepted by the matching verify of a Verifier built from the same keyset
\* commitment, the matching verifier key and the same transcript label.
C1_Completeness == VerifiedUnmodified => ver.result

C1_Witness ==
    /\ VerifiedUnmodified
    /\ ver.result
    /\ calls[ver.call].variant = "packed"
    /\ CountOnes(calls[ver.call].bitmask) >= 2

\* C2: a call of prove (any variant) with a bitmask that has no bit set is
\* rejected before the aggregate key is computed, before anything is appended
\* to a transcript and before any commitment is computed; nothing is returned.
C2_ZeroBitmaskRejected ==
    \A c \in Calls :
        (calls[c].pc # "idle" /\ CountOnes(calls[c].bitmask) = 0)
            => NothingDone(calls[c])

C2_Witness ==
    \E c \in Calls :
        /\ calls[c].pc = "rejected"
        /\ BitmaskSize(calls[c].bitmask) = KeysetSize(keyset)
        /\ BitmaskSize(calls[c].bitmask) >= 2
        /\ CountOnes(calls[c].bitmask) = 0

\* C3: a call of prove (any variant) with a bitmask whose length differs from
\* the keyset's size (the number of real keys, not the domain's size) is
\* rejected before any cryptographic work and returns no proof.
C3_WrongLengthRejected ==
    \A c \in Calls :
        (calls[c].pc # "idle" /\ BitmaskSize(calls[c].bitmask) # KeysetSize(keyset))
            => NothingDone(calls[c])

C3_Witness ==
    \E c \in Calls :
        /\ calls[c].pc = "rejected"
        /\ BitmaskSize(calls[c].bitmask) = keyset.domain.size
        /\ CountOnes(calls[c].bitmask) > 0

\* C4: prove rejects every bitmask whose selected keys sum to the group
\* identity, bitmasks with bits set included (a key and its negation, both
\* selected); no proof is produced for an identity aggregate.
C4_IdentityAggregateRejected ==
    \A c \in Calls :
        (/\ calls[c].pc # "idle"
         /\ BitmaskSize(calls[c].bitmask) = KeysetSize(keyset)
         /\ SelectedSum(keyset.pks, calls[c].bitmask).infinity)
            => calls[c].pc # "done"

\* the transcript's events after the domain separator: what is absorbed and
\* which challenge is derived
TranscriptEvents(transcript) ==
    [i \in 1 .. (Len(transcript) - 1) |->
        IF transcript[i + 1][1] = "challenge"
        THEN <<"derive", transcript[i + 1][2]>>
        ELSE <<"absorb", transcript[i + 1][1]>>]

ExpectedTranscriptEvents ==
    << <<"absorb", "protocol_params">>,
       <<"absorb", "keyset_commitment">>,
       <<"absorb", "public_input">>,
       <<"absorb", "register_commitments">>,
       <<"derive", "bitmask_aggregation">>,
       <<"absorb", "2nd_round_register_commitments">>,
       <<"derive", "constraints_aggregation">>,
       <<"absorb", "quotient_commitment">>,
       <<"derive", "evaluation_point">>,
       <<"absorb", "evaluations">>,
       <<"derive", "kzg_aggregation">> >>

ExpectedEvents ==
    <<"aggregate", "clone transcript", "absorb public_input",
      "init registers", "commit round 1", "absorb register_commitments",
      "challenge r", "registers round 2", "commit round 2",
      "absorb 2nd_round_register_commitments",
      "challenge phi", "quotient", "commit quotient", "absorb quotient_commitment",
      "challenge zeta", "evaluate registers", "evaluate quotient", "linearization",
      "absorb evaluations",
      "challenge nus", "open w", "open r", "proof">>

\* how many transcript events and how many steps a call has behind it
TranscriptEventsAt(pc) ==
    CASE pc = "round1" -> 3
      [] pc = "round2" -> 4
      [] pc = "quotient" -> 6
      [] pc = "evaluation" -> 8
      [] pc = "opening" -> 10
      [] pc = "done" -> 11

EventsAt(pc) ==
    CASE pc = "round1" -> 3
      [] pc = "round2" -> 6
      [] pc = "quotient" -> 10
      [] pc = "evaluation" -> 14
      [] pc = "opening" -> 19
      [] pc = "done" -> 23

InProgress(l) ==
    l.pc \in {"round1", "round2", "quotient", "evaluation", "opening", "done"}

\* s is the beginning of t
IsPrefix(s, t) == Len(s) <= Len(t) /\ s = SubSeq(t, 1, Len(s))

\* C5: in every execution of Prover::new followed by prove the transcript
\* events occur in exactly this order, each once: absorb protocol params,
\* keyset commitment, public input, round 1 commitments, derive r, absorb
\* round 2 commitments, derive phi, absorb quotient commitment, derive zeta,
\* absorb evaluations (register evaluations, q_zeta, r_zeta_omega), derive the
\* KZG aggregation challenges; and every value that depends on a challenge is
\* computed only after that challenge was derived.
C5_TranscriptOrder ==
    \A c \in Calls :
        LET l == calls[c]
        IN  /\ l.pc = "panicked" =>
                  /\ IsPrefix(TranscriptEvents(l.transcript), ExpectedTranscriptEvents)
                  /\ IsPrefix(l.events, ExpectedEvents)
            /\ InProgress(l) =>
                  /\ TranscriptEvents(l.transcript)
                        = SubSeq(ExpectedTranscriptEvents, 1, TranscriptEventsAt(l.pc))
                  /\ l.events = SubSeq(ExpectedEvents, 1, EventsAt(l.pc))
            /\ l.pc \in {"opening", "done"} =>
                  l.transcript[11]
                     = <<"evaluations",
                         <<l.register_evaluations, l.q_zeta, l.r_zeta_omega>> >>

C5_Witness ==
    \E c \in Calls :
        /\ calls[c].pc = "done"
        /\ calls[c].variant = "packed"
        /\ TranscriptEvents(calls[c].transcript) = ExpectedTranscriptEvents
        /\ calls[c].events = ExpectedEvents

\* two calls of prove with the same variant and the same bitmask
SameArguments(c, d) ==
    /\ calls[c].variant = calls[d].variant
    /\ calls[c].bitmask = calls[d].bitmask

C7_VerifierChallenges ==
    VerifiedUnmodified =>
        /\ ver.transcript = calls[ver.call].transcript
        /\ ver.r = calls[ver.call].r
        /\ ver.phi = calls[ver.call].phi
        /\ ver.zeta = calls[ver.call].zeta
        /\ ver.nus = calls[ver.call].nus

C7_Witness ==
    /\ VerifiedUnmodified
    /\ calls[ver.call].variant = "counting"
    /\ ver.zeta = calls[ver.call].zeta
    /\ Len(ver.transcript) = 12

\* C8: corrupting any single field of an honestly produced Proof (a register
\* commitment, the quotient commitment, a register evaluation, q_zeta,
\* r_zeta_omega or one of the two opening proofs) makes verification return
\* false.
C8_CorruptedProofRejected ==
    (ver.pc = "done" /\ ver.tamper # None) => ~ver.result

C8_Witness ==
    /\ ver.pc = "done"
    /\ ver.tamper # None
    /\ ver.tamper[1] = "r_at_zeta_omega_proof"
    /\ ver.proof # calls[ver.call].returned[1]
    /\ ~ver.result

\* C9: for one keyset and one bitmask the aggregate key in the public input
\* prove_simple, prove_packed and prove_counting return is the same point; the
\* bitmask in the simple and packed public inputs is the input bitmask; the
\* count in the counting public input is the number of set bits.
C9_PublicInputsAgree ==
    \A c, d \in Calls :
        (calls[c].pc = "done" /\ calls[d].pc = "done") =>
            /\ calls[c].bitmask = calls[d].bitmask
                  => calls[c].returned[2][2] = calls[d].returned[2][2]
            /\ calls[c].variant \in {"simple", "packed"}
                  => calls[c].returned[2][3] = calls[c].bitmask
            /\ calls[c].variant = "counting"
                  => calls[c].returned[2][3] = HammingWeight(calls[c].bitmask)

C9_Witness ==
    /\ calls[1].pc = "done"
    /\ calls[2].pc = "done"
    /\ calls[1].bitmask = calls[2].bitmask
    /\ calls[1].variant = "simple"
    /\ calls[2].variant = "counting"
    /\ HammingWeight(calls[1].bitmask) < BitmaskSize(calls[1].bitmask)

\* C10: the PublicInput prove returns is the value that was absorbed into the
\* transcript before round 1, its aggregate key is keyset.aggregate(bitmask)
\* for the bitmask passed to prove, and it is not altered between absorption
\* and return.
C10_PublicInputAbsorbed ==
    \A c \in Calls :
        LET l == calls[c]
        IN  /\ InProgress(l) =>
                  /\ l.transcript[4] = <<"public_input", l.public_input>>
                  /\ l.public_input[2]
                        = IntoAffine(SelectedSum(keyset.pks, l.bitmask))
            /\ l.pc = "done" => l.returned[2] = l.public_input

C10_Witness ==
    \E c \in Calls :
        /\ calls[c].pc = "done"
        /\ CountOnes(calls[c].bitmask) < BitmaskSize(calls[c].bitmask)
        /\ ~calls[c].returned[2][2].infinity
        /\ calls[c].transcript[4][2] = calls[c].returned[2]

\* C11: Keyset::aggregate(bitmask) returns the group sum of exactly the real
\* keys pks[i] with bitmask[i] set; padding points never contribute; the
\* result for an all-false bitmask is the identity; a bitmask whose length
\* differs from the keyset's size is rejected.
C11_AggregateSelectedKeys ==
    bench.op = "Keyset::aggregate" =>
        LET pks == bench.input[1]
            bitmask == bench.input[2]
        IN  IF Len(bitmask) # Len(pks)
            THEN bench.output = <<"panic">>
            ELSE /\ bench.output = <<"ok", SelectedSum(pks, bitmask)>>
                 /\ HammingWeight(bitmask) = 0 => bench.output[2] = Identity

C11_Witness ==
    /\ bench.op = "Keyset::aggregate"
    /\ bench.output[1] = "ok"
    /\ Len(bench.input[1]) < KeysetNew(bench.input[1]).domain.size - 1
    /\ HammingWeight(bench.input[2]) \in 1 .. (Len(bench.input[2]) - 1)
    /\ ~bench.output[2].infinity

\* a power of two
IsPowerOfTwo(n) == \E e \in 0 .. n : n = 2 ^ e

\* the polynomial in coefficient form takes the values of the table on the
\* domain of the table's size
InterpolatesTable(coeffs, table) ==
    \A i \in 1 .. Len(table) :
        EvaluateCoefficients(coeffs, DomainElement(Len(table), i)) = table[i]

\* C12: for every key list of length m, Keyset::new chooses the domain size n
\* as the smallest power of two with n >= m + 1 (so keyset_size <= n - 1, and
\* m = 2^k keys force n = 2^(k+1)), the padded coordinate vectors have length
\* exactly n, and both interpolated coordinate polynomials have degree < n.
C12_KeysetDomain ==
    bench.op = "Keyset::new" =>
        LET m == Len(bench.input[1])
            ks == bench.output[1]
            n == ks.domain.size
        IN  /\ IsPowerOfTwo(n)
            /\ n >= m + 1
            /\ n = 1 \/ n \div 2 < m + 1
            /\ KeysetSize(ks) = m /\ m <= n - 1
            /\ IsPowerOfTwo(m) => n = 2 * m
            /\ \A c \in 1 .. 2 :
                  LET table == TableOf(ks.pks_polys[c])
                      coeffs == InterpolateCoefficients(table)
                  IN  /\ Len(table) = n
                      /\ Degree(coeffs) < n
                      /\ InterpolatesTable(coeffs, table)

C12_Witness ==
    /\ bench.op = "Keyset::new"
    /\ Len(bench.input[1]) = 2
    /\ bench.output[1].domain.size = 4
    /\ Degree(InterpolateCoefficients(TableOf(bench.output[1].pks_polys[1]))) = 3

\* the coordinates Keyset::new is documented to interpolate for a key list:
\* the keys, then the padding point up to the domain's size
PaddedWith(pks, n, padding) ==
    [i \in 1 .. n |-> IF i <= Len(pks) THEN pks[i] ELSE padding]

\* C13: Keyset::commit fails (returns no commitment) whenever the keyset's
\* domain size exceeds the committer key's max_degree + 1; otherwise it
\* returns a KeysetCommitment whose two commitments are to the x and the y
\* coordinate polynomial, in that order, and whose log_domain_size is log2 of
\* the domain size; commit does not modify the keyset.
C13_KeysetCommit ==
    bench.op = "Keyset::commit" =>
        LET pks == bench.input[1]
            ck == bench.input[2]
            ks == KeysetNew(pks)
            n == ks.domain.size
            padded == PaddedWith(pks, n, hash_to_curve)
        IN  IF n > ck.max_degree + 1
            THEN bench.output = <<"panic">>
            ELSE /\ bench.output[1] = "ok"
                 /\ bench.output[2].pks_comm[1]
                       = <<"comm", ck.urs, <<"poly", [i \in 1 .. n |-> padded[i].x]>> >>
                 /\ bench.output[2].pks_comm[2]
                       = <<"comm", ck.urs, <<"poly", [i \in 1 .. n |-> padded[i].y]>> >>
                 /\ 2 ^ bench.output[2].log_domain_size = n
                 /\ bench.output[3] = ks

C13_Witness ==
    /\ bench.op = "Keyset::commit"
    /\ bench.output[1] = "ok"
    /\ bench.output[2].log_domain_size = 2
    /\ bench.output[2].pks_comm[1] # bench.output[2].pks_comm[2]

\* C14: every honest party computes the same commitment: two evaluations of
\* Keyset::new(keys).commit(key) on the same ordered key list and the same
\* committer key give equal KeysetCommitment values, while key lists of
\* different order or length give padded vectors that differ.
C14_SameListSameCommitment ==
    bench.op = "Keyset::commit twice" =>
        /\ bench.input[1] = bench.input[2] => bench.output[1] = bench.output[2]
        /\ bench.input[1] # bench.input[2] => bench.output[3] # bench.output[4]

\* C15: in the padded key vector Keyset::new interpolates and commits to,
\* the last slot pks[domain_size - 1] is (0, 0), which is not a curve point,
\* while the slots keyset_size .. domain_size - 2 hold the padding point.
C15_LastSlotIsZero ==
    bench.op = "Keyset::new" =>
        LET m == Len(bench.input[1])
            ks == bench.output[1]
            n == ks.domain.size
            xs == TableOf(ks.pks_polys[1])
            ys == TableOf(ks.pks_polys[2])
        IN  /\ xs[n] = 0 /\ ys[n] = 0
            /\ \A i \in (m + 1) .. (n - 1) :
                  xs[i] = hash_to_curve.x /\ ys[i] = hash_to_curve.y

\* the value of the booleanity constraint polynomial at position i of the
\* domain of the register
BooleanityValue(i) ==
    EvaluateCoefficients(bench.output[1], DomainElement(Len(bench.input[1]), i))

\* C16: the booleanity constraint polynomial b * (1 - b) built from registers
\* is zero at every point of the base domain if and only if every entry of
\* the bitmask register is 0 or 1; replacing a single entry of a 0/1 register
\* by a field value outside {0, 1} makes it nonzero at that domain point.
C16_BooleanityVanishes ==
    bench.op = "booleanity" =>
        LET b == bench.input[1]
            n == Len(b)
        IN  /\ IsZeroOnDomain(n, bench.output[1]) <=> \A i \in 1 .. n : b[i] \in {0, 1}
            /\ \A i \in 1 .. n : (BooleanityValue(i) = 0) <=> (b[i] \in {0, 1})

C16_Witness ==
    /\ bench.op = "booleanity"
    /\ Len(bench.input[1]) = 4
    /\ Cardinality({i \in 1 .. 4 : bench.input[1][i] \notin {0, 1}}) = 1
    /\ bench.input[1][3] = FieldModulus - 1
    /\ BooleanityValue(3) # 0
    /\ BooleanityValue(2) = 0

\* the register of the call holds only 0 and 1
BooleanRegister ==
    /\ bench.op = "booleanity"
    /\ \A i \in 1 .. Len(bench.input[1]) : bench.input[1][i] \in {0, 1}

\* C17 as stated: for any 0/1-valued bitmask register over a domain of size n
\* (the all-zero and the all-one register included) the interpolated
\* booleanity constraint polynomial has degree exactly 2(n - 1).
C17_DegreeExact ==
    BooleanRegister => Degree(bench.output[1]) = 2 * (Len(bench.input[1]) - 1)

\* C17 as amended: for any 0/1-valued bitmask register over a domain of size n
\* the booleanity constraint polynomial has twice the degree of the
\* interpolated bitmask polynomial: at most 2(n - 1), exactly 2(n - 1) when
\* the bitmask polynomial has degree n - 1, and it is the zero polynomial
\* (degree 0) for the all-zero and the all-one register.
C17_DegreeAmended ==
    BooleanRegister =>
        LET b == bench.input[1]
            n == Len(b)
            d == Degree(InterpolateCoefficients(b))
        IN  /\ Degree(bench.output[1]) = 2 * d
            /\ Degree(bench.output[1]) <= 2 * (n - 1)
            /\ d = n - 1 => Degree(bench.output[1]) = 2 * (n - 1)
            /\ (\A i \in 1 .. n : b[i] = b[1]) =>
                  \A j \in 1 .. Len(bench.output[1]) : bench.output[1][j] = 0

C17_Witness ==
    /\ BooleanRegister
    /\ Len(bench.input[1]) = 4
    /\ Degree(bench.output[1]) = 6

\* the formulas of the two constraints as the claim states them
ClaimedC1(b, x1, y1, x2, y2, x3, y3) ==
    FAdd(FMul(b, FSub(FMul(FMul(FSub(x1, x2), FSub(x1, x2)), FAdd(FAdd(x1, x2), x3)),
                      FMul(FSub(y2, y1), FSub(y2, y1)))),
         FMul(FSub(1, b), FSub(y3, y1)))

ClaimedC2(b, x1, y1, x2, y2, x3, y3) ==
    FAdd(FMul(b, FSub(FMul(FSub(x1, x2), FAdd(y3, y1)),
                      FMul(FSub(y2, y1), FSub(x3, x1)))),
         FMul(FSub(1, b), FSub(x3, x1)))

\* position i of the registers of a call of the conditional addition
\* constraints: the bit, the accumulator, the key, the next accumulator
BenchBit(i) == IF bench.input[1][i] THEN 1 ELSE 0

BenchAcc(i) == bench.input[3][i]

BenchPk(i) == bench.input[2][i]

BenchNextAcc(i) == bench.input[3][(i % Len(bench.input[3])) + 1]

BenchC1(i) ==
    EvaluateCoefficients(bench.output[1], DomainElement(Len(bench.input[2]), i))

BenchC2(i) ==
    EvaluateCoefficients(bench.output[2], DomainElement(Len(bench.input[2]), i))

\* C18: at every base domain index i the two conditional affine addition
\* constraint polynomials take the values
\*   C1_i = b_i ((x1 - x2)^2 (x1 + x2 + x3) - (y2 - y1)^2) + (1 - b_i)(y3 - y1)
\*   C2_i = b_i ((x1 - x2)(y3 + y1) - (y2 - y1)(x3 - x1)) + (1 - b_i)(x3 - x1);
\* for b_i = 0 both are zero iff (x3, y3) = (x1, y1), and for b_i = 1 both
\* are zero whenever (x3, y3) is the affine sum of (x1, y1) and (x2, y2) with
\* x1 # x2.
C18_ConditionalAddition ==
    bench.op = "conditional affine addition" =>
        \A i \in 1 .. Len(bench.input[2]) :
            LET b == BenchBit(i)
                p1 == BenchAcc(i)
                p2 == BenchPk(i)
                p3 == BenchNextAcc(i)
            IN  /\ BenchC1(i) = ClaimedC1(b, p1.x, p1.y, p2.x, p2.y, p3.x, p3.y)
                /\ BenchC2(i) = ClaimedC2(b, p1.x, p1.y, p2.x, p2.y, p3.x, p3.y)
                /\ b = 0 => ((BenchC1(i) = 0 /\ BenchC2(i) = 0) <=> p3 = p1)
                /\ (b = 1 /\ p1.x # p2.x /\ p3 = GroupAdd(p1, p2))
                      => (BenchC1(i) = 0 /\ BenchC2(i) = 0)

C18_Witness ==
    /\ bench.op = "conditional affine addition"
    /\ BenchBit(1) = 1
    /\ BenchAcc(1) = point_in_g1_complement
    /\ BenchPk(1) = G1Generator
    /\ BenchNextAcc(1) = GroupAdd(point_in_g1_complement, G1Generator)
    /\ BenchC1(1) = 0 /\ BenchC2(1) = 0
    /\ BenchBit(2) = 1
    /\ BenchC1(2) # 0

\* the Prover as Prover::new built it
FreshProver ==
    ProverNew(keyset, keyset_comm, kzg_params, TranscriptNew("apk_proof"))

\* C19: prove leaves every field of the Prover (domains, keyset, committer
\* key, preprocessed transcript) unchanged: after any number of calls the
\* preprocessed transcript still holds only the protocol parameters and the
\* keyset commitment, and a later call returns the same as the first call
\* with the same bitmask.
C19_ProverUnchanged ==
    setup \in {"ready", "rebuilt"} =>
        /\ prover = FreshProver
        /\ TranscriptEvents(prover.preprocessed_transcript)
              = SubSeq(ExpectedTranscriptEvents, 1, 2)
        /\ \A c \in Calls :
              (calls[1].pc = "done" /\ calls[c].pc = "done" /\ SameArguments(1, c))
                  => calls[c].returned = calls[1].returned

C19_Witness ==
    /\ calls[1].pc = "done"
    /\ calls[2].pc = "done"
    /\ calls[1].variant = "counting"
    /\ SameArguments(1, 2)
    /\ calls[2].returned = calls[1].returned
    /\ prover = FreshProver
    /\ Len(prover.preprocessed_transcript) < Len(calls[2].transcript)

\* a call of prove run alone up to position pc, the random oracle being o
RunAlone(p, variant, bitmask, o, pc) ==
    LET l0 == ProveStart(p, variant, bitmask)
        l1 == ProveRound1(p, l0)
        l2 == ProveRound2(p, l1, o)
        l3 == ProveQuotient(p, l2, o)
        l4 == ProveEvaluation(p, l3, o)
    IN  CASE pc \in {"rejected", "round1"} -> l0
          [] pc = "round2" -> l1
          [] pc = "quotient" -> l2
          [] pc = "evaluation" -> l3
          [] pc = "opening" -> l4
          [] pc = "done" -> ProveOpening(p, l4, o)
          [] pc = "panicked" ->
                IF l1.pc = "panicked" THEN l1
                ELSE IF l2.pc = "panicked" THEN l2
                ELSE IF l3.pc = "panicked" THEN l3
                ELSE IF l4.pc = "panicked" THEN l4
                ELSE ProveOpening(p, l4, o)

\* C20: when two calls of prove run at the same time on one Prover, their
\* steps interleaved in any order, each call is at every step where it would
\* be alone: its transcript holds only its own messages and challenges, and
\* it returns exactly the (Proof, PublicInput) it would return alone.
C20_ConcurrentCallsIsolated ==
    \A c \in Calls :
        calls[c].pc # "idle" =>
            /\ calls[c] = RunAlone(FreshProver, calls[c].variant, calls[c].bitmask,
                                   oracle, calls[c].pc)
            /\ InProgress(calls[c]) =>
                  TranscriptEvents(calls[c].transcript)
                     = SubSeq(ExpectedTranscriptEvents, 1, TranscriptEventsAt(calls[c].pc))

\* both calls returned after their steps were interleaved: call 2 started and
\* finished while call 1 was between its first and its last challenge
C20_Witness ==
    /\ calls[1].pc = "done"
    /\ calls[2].pc = "done"
    /\ calls[1].variant = "packed"
    /\ calls[2].variant = "simple"
    /\ calls[1].bitmask # calls[2].bitmask
    /\ calls[1].r < calls[2].phi
    /\ calls[2].nus[1] < calls[1].nus[1]
    /\ calls[2].returned
          = RunAlone(FreshProver, "simple", calls[2].bitmask, oracle, "done").returned

\* the bitmask of a call passed the two assertions of prove
ValidInput(l) ==
    /\ BitmaskSize(l.bitmask) = KeysetSize(keyset)
    /\ CountOnes(l.bitmask) > 0

\* C21: for every bitmask that passes input validation (the keyset's length,
\* a bit set) every later step of prove succeeds and prove returns a proof:
\* no call with such a bitmask is refused or panics, the step it is about to
\* take takes it to the next position, and the linearization polynomial is
\* computed from evaluations that evaluate_register_polynomials stored.
\* (Prover::new does not check that the key holds the quotient polynomial, of
\* degree 3n - 3 for a domain of size n: on a Prover whose key is smaller a
\* call with a valid bitmask panics where it commits to the quotient.)
C21_LaterStepsSucceed ==
    \A c \in Calls :
        LET l == calls[c]
        IN  (l.pc # "idle" /\ ValidInput(l)) =>
                /\ l.pc \notin {"rejected", "panicked"}
                /\ l.pc = "round1" => ProveRound1(prover, l).pc = "round2"
                /\ l.pc = "round2" => ProveRound2(prover, l, oracle).pc = "quotient"
                /\ l.pc = "quotient" => ProveQuotient(prover, l, oracle).pc = "evaluation"
                /\ l.pc = "evaluation" => ProveEvaluation(prover, l, oracle).pc = "opening"
                /\ l.pc = "opening" => ProveOpening(prover, l, oracle).pc = "done"
                /\ l.pc \in {"opening", "done"} =>
                      /\ l.protocol.register_evaluations # None
                      /\ l.r_poly # <<"panic">>
                      /\ l.r_poly[1] = "lin"
                /\ l.pc = "done" => l.returned # None

\* a call with a valid bitmask that panicked at the commitment to the quotient,
\* on a Prover whose key holds the keyset's polynomials but not the quotient
C21_Witness ==
    \E c \in Calls :
        /\ calls[c].pc = "panicked"
        /\ ValidInput(calls[c])
        /\ CommitFits(keyset, prover.kzg_pk)
        /\ prover.kzg_pk.max_degree < 3 * keyset.domain.size - 3
        /\ calls[c].events[Len(calls[c].events)] = "quotient"
        /\ calls[c].returned = None

\* the value at position i of the base domain of a register amplified to the
\* 4 times larger domain
BaseValue(register, i) == register[4 * (i - 1) + 1]

\* C23: Registers::new zero-extends the bitmask from the keyset's length to
\* the domain's size n and builds the shifted accumulator as the rotation by
\* one position with wrap-around, shifted[i] = acc[(i + 1) mod n], so
\* shifted[n - 1] = acc[0]; the accumulator and the key registers are passed
\* through unchanged.  (An accumulator of no position makes the rotation
\* panic: Registers::new then returns nothing.)
C23_RegistersNew ==
    bench.op = "Registers::new" =>
      IF bench.input[3][1] = <<>>
      THEN bench.output = <<(<<"panic">>), (<<"panic">>)>>
      ELSE
        LET bitmask == bench.input[1]
            pks == bench.input[2]
            apk_acc == bench.input[3]
            n == Len(pks)
            raw == bench.output[1]
            amplified == bench.output[2]
        IN  /\ Len(raw.bitmask) = n
            /\ \A i \in 1 .. n :
                  /\ raw.bitmask[i]
                        = (IF i <= Len(bitmask) THEN (IF bitmask[i] THEN 1 ELSE 0) ELSE 0)
                  /\ raw.apk_acc_x_shifted[i] = apk_acc[1][IF i = n THEN 1 ELSE i + 1]
                  /\ raw.apk_acc_y_shifted[i] = apk_acc[2][IF i = n THEN 1 ELSE i + 1]
                  /\ raw.pks_x[i] = pks[i].x
                  /\ raw.pks_y[i] = pks[i].y
                  /\ BaseValue(amplified.bitmask, i) = raw.bitmask[i]
                  /\ BaseValue(amplified.apk_acc_x_shifted, i) = raw.apk_acc_x_shifted[i]
                  /\ BaseValue(amplified.apk_acc_y_shifted, i) = raw.apk_acc_y_shifted[i]
                  /\ BaseValue(amplified.apk_acc_x, i) = apk_acc[1][i]
                  /\ BaseValue(amplified.apk_acc_y, i) = apk_acc[2][i]
                  /\ BaseValue(amplified.pks_x, i) = pks[i].x
                  /\ BaseValue(amplified.pks_y, i) = pks[i].y
            /\ raw.apk_acc_x = apk_acc[1]
            /\ raw.apk_acc_y = apk_acc[2]

C23_Witness ==
    /\ bench.op = "Registers::new"
    /\ bench.input[3][1] # <<>>
    /\ Len(bench.input[2]) = 4
    /\ bench.input[1] = <<TRUE, TRUE>>
    /\ bench.output[1].bitmask = <<1, 1, 0, 0>>
    /\ bench.input[3][1][1] # bench.input[3][1][2]
    /\ bench.input[3][1][1] # bench.input[3][1][4]
    /\ bench.output[1].apk_acc_x_shifted[4] = bench.input[3][1][1]
    /\ bench.output[1].apk_acc_x_shifted[1] = bench.input[3][1][2]

\* the registers a call of prove built, once it built them
HasRegisters(l) == InProgress(l) /\ l.pc # "round1"

\* position i of the accumulator of a call's registers, as a point
AccumulatorAt(l, i) ==
    Affine(l.protocol.registers.apk_acc_x[i], l.protocol.registers.apk_acc_y[i])

\* the accumulator starts at the fixed initial value and follows the
\* accumulation rule at every index below the wrap slot
FollowsAccumulationRule(l) ==
    LET registers == l.protocol.registers
        n == Len(registers.bitmask)
    IN  /\ AccumulatorAt(l, 1) = point_in_g1_complement
        /\ \A i \in 1 .. (n - 1) :
              AccumulatorAt(l, i + 1)
                 = (IF registers.bitmask[i] = 1
                    THEN GroupAdd(AccumulatorAt(l, i),
                                  Affine(registers.pks_x[i], registers.pks_y[i]))
                    ELSE AccumulatorAt(l, i))

\* C24 as stated: the last accumulator value, at the wrap slot (index
\* domain_size - 1), equals the aggregate key placed in the public input,
\* given an accumulator that starts at the fixed initial value and follows the
\* accumulation rule for every index below the wrap slot.
C24_LastAccumulatorIsApk ==
    \A c \in Calls :
        (HasRegisters(calls[c]) /\ FollowsAccumulationRule(calls[c])) =>
            AccumulatorAt(calls[c], Len(calls[c].protocol.registers.bitmask))
               = calls[c].public_input[2]

\* C24 as amended: the last accumulator value, at the wrap slot, equals the
\* sum of the fixed initial value (point_in_g1_complement) and the aggregate
\* key placed in the public input; the accumulator of every call starts at
\* the initial value and follows the accumulation rule below the wrap slot.
C24_LastAccumulatorIsApkPlusInitial ==
    \A c \in Calls :
        HasRegisters(calls[c]) =>
            /\ FollowsAccumulationRule(calls[c])
            /\ AccumulatorAt(calls[c], Len(calls[c].protocol.registers.bitmask))
                  = GroupAdd(point_in_g1_complement, calls[c].public_input[2])
            /\ GroupAdd(AccumulatorAt(calls[c], Len(calls[c].protocol.registers.bitmask)),
                        Neg(point_in_g1_complement))
                  = calls[c].public_input[2]

C24_Witness ==
    \E c \in Calls :
        /\ calls[c].pc = "done"
        /\ CountOnes(calls[c].bitmask) = 2
        /\ Len(calls[c].protocol.registers.bitmask) = 4
        /\ ~calls[c].public_input[2].infinity
        /\ AccumulatorAt(calls[c], 4)
              = GroupAdd(point_in_g1_complement, calls[c].public_input[2])
        /\ AccumulatorAt(calls[c], 4) # calls[c].public_input[2]

\* a call of prove_simple that is past its second round
SimplePastRound2(l) ==
    l.variant = "simple" /\ l.pc \in {"quotient", "evaluation", "opening", "done"}

\* C25: in the plain (basic) scheme the second round contributes nothing:
\* get_register_polynomials_to_commit2 returns the empty value for every
\* challenge and does not change the builder, the proof's
\* additional_commitments is empty, and the proof's register evaluations are
\* exactly the keyset x/y and the partial-sum x/y evaluations, without the
\* evaluation of the bitmask.
C25_PlainSecondRoundEmpty ==
    \A c \in Calls :
        LET l == calls[c]
            registers == l.protocol.registers
        IN  SimplePastRound2(l) =>
                /\ l.acc_register_commitments = <<>>
                /\ \A r \in 0 .. (Len(oracle) + 1) :
                      /\ GetRegisterPolynomialsToCommit2(l.protocol, r) = <<>>
                      /\ ProtocolAfterCommit2(l.protocol, r) = l.protocol
                /\ l.pc \in {"quotient", "evaluation"} =>
                      l.protocol
                         = ProtocolInit("simple", prover.domains, l.bitmask, prover.keyset)
                /\ l.pc = "done" =>
                      /\ l.returned[1].additional_commitments = <<>>
                      /\ l.returned[1].register_evaluations
                            = <<"without_bitmask",
                                <<Evaluate(Interpolate(registers.pks_x), l.zeta),
                                  Evaluate(Interpolate(registers.pks_y), l.zeta)>>,
                                <<Evaluate(Interpolate(registers.apk_acc_x), l.zeta),
                                  Evaluate(Interpolate(registers.apk_acc_y), l.zeta)>> >>
                      /\ Len(AsVec(l.returned[1].register_evaluations)) = 4
                      /\ \A i \in 1 .. 4 :
                            AsVec(l.returned[1].register_evaluations)[i]
                               # Evaluate(BitmaskPoly(registers), l.zeta)

C25_Witness ==
    \E c \in Calls :
        /\ calls[c].pc = "done"
        /\ calls[c].variant = "simple"
        /\ calls[c].r > 0
        /\ calls[c].returned[1].additional_commitments = <<>>
        /\ Len(calls[c].returned[1].register_commitments) = 2
        /\ calls[c].returned[1].register_evaluations[1] = "without_bitmask"

\* C28: the packed register builder holds no second round registers after
\* init (bitmask_packing_registers is None) and holds them after the second
\* round call; evaluate_register_polynomials,
\* compute_linearization_polynomial, compute_constraint_polynomials and
\* get_all_register_polynomials fail if called before the second round call
\* and succeed after it; the second round call leaves the affine addition
\* registers unchanged, and the first round polynomials are the same before
\* and after it.
C28_PackedBuilderRounds ==
    bench.op = "PackedRegisterBuilder" =>
        LET out == bench.output
        IN  /\ out.init.bitmask_packing_registers = None
            /\ out.builder.bitmask_packing_registers # None
            /\ \A m \in 1 .. 4 :
                  /\ out.before[m] = <<"panic">>
                  /\ out.after[m] # <<"panic">>
            /\ out.builder.registers = out.init.registers
            /\ out.first_round_after = out.first_round_before
            /\ out.first_round_before = PartialSumsPolys(out.init.registers)

C28_Witness ==
    /\ bench.op = "PackedRegisterBuilder"
    /\ Len(bench.input[1]) = 2
    /\ bench.input[3] = 2
    /\ bench.output.before[1] = <<"panic">>
    /\ bench.output.after[1][1] = "packed"
    /\ bench.output.after[2][1] = "lin"
    /\ Len(bench.output.after[4]) = 7
    /\ Len(bench.output.second_round) = 2
    /\ Len(bench.output.first_round_before) = 2
    /\ bench.output.builder.bitmask_packing_registers[2] = 2

\* the polynomials aggregated for the opening at zeta, read from the opening
\* proof a call returned
OpenedAtZeta(l) == l.returned[1].w_at_zeta_proof[3][2]

\* C29: in the plain scheme the polynomials aggregated for the opening at
\* zeta are keyset x, keyset y, partial-sum x, partial-sum y, quotient, in
\* this order; this is the order of the register evaluations in as_vec
\* followed by q_zeta, and the number of KZG aggregation challenges requested
\* equals the number of these polynomials.
C29_PlainOpeningOrder ==
    \A c \in Calls :
        LET l == calls[c]
            registers == l.protocol.registers
            evals == AsVec(l.returned[1].register_evaluations) \o <<l.returned[1].q_zeta>>
        IN  (l.pc = "done" /\ l.variant = "simple") =>
                /\ OpenedAtZeta(l)
                      = <<Interpolate(registers.pks_x), Interpolate(registers.pks_y),
                          Interpolate(registers.apk_acc_x),
                          Interpolate(registers.apk_acc_y), l.q_poly>>
                /\ Len(evals) = Len(OpenedAtZeta(l))
                /\ \A i \in 1 .. Len(evals) :
                      evals[i] = Evaluate(OpenedAtZeta(l)[i], l.zeta)
                /\ l.nus[2] = Len(OpenedAtZeta(l))
                /\ l.returned[1].w_at_zeta_proof[3][3] = l.nus

C29_Witness ==
    \E c \in Calls :
        /\ calls[c].pc = "done"
        /\ calls[c].variant = "simple"
        /\ Len(OpenedAtZeta(calls[c])) = 5
        /\ OpenedAtZeta(calls[c])[5] = calls[c].q_poly
        /\ calls[c].nus[2] = 5
        /\ OpenedAtZeta(calls[c])[1] # OpenedAtZeta(calls[c])[3]

\* C30: Keyset::new keeps the real keys unchanged and in input order at
\* indices 0..keyset_size-1 of the padded vector and fills every index from
\* keyset_size upward with one and the same hash-to-curve point; Keyset.pks
\* keeps only the real keys, so size() returns the number of real keys and is
\* not changed by amplify or commit.
C30_RealKeysThenPadding ==
    bench.op = "Keyset::new" =>
        LET pks == bench.input[1]
            ks == bench.output[1]
            padded == PaddedPks(ks)
        IN  /\ \A i \in 1 .. Len(pks) : padded[i] = pks[i]
            /\ \A i \in (Len(pks) + 1) .. Len(padded) : padded[i] = hash_to_curve
            /\ ks.pks = pks
            /\ KeysetSize(ks) = Len(pks)
            /\ KeysetAmplify(ks).pks = pks
            /\ KeysetSize(KeysetAmplify(ks)) = Len(pks)
            /\ KeysetSize(KeysetAfterCommit(ks)) = Len(pks)
            /\ KeysetSize(KeysetAfterCommit(KeysetAmplify(ks))) = Len(pks)

C30_Witness ==
    /\ bench.op = "Keyset::new"
    /\ Len(bench.input[1]) = 2
    /\ bench.input[1][1] # bench.input[1][2]
    /\ hash_to_curve \notin {bench.input[1][1], bench.input[1][2]}
    /\ Len(PaddedPks(bench.output[1])) = 4
    /\ PaddedPks(bench.output[1])[3] = hash_to_curve
    /\ PaddedPks(bench.output[1])[4] = hash_to_curve
    /\ KeysetSize(KeysetAmplify(bench.output[1])) = 2
    /\ KeysetAmplify(bench.output[1]) # bench.output[1]

\* the call of script that began the era call i is in: the last new_era
\* before it, or 0 when there is none
EraStart(script, i) ==
    LET before == {j \in 1 .. i - 1 : script[j][1] = "new_era"}
    IN  IF before = {} THEN 0 ELSE CHOOSE j \in before : \A k \in before : k <= j

\* the first call of get_keyset_commitment of the era call i is in
FirstGet(script, i) ==
    CHOOSE j \in EraStart(script, i) + 1 .. i :
        /\ script[j][1] = "get"
        /\ \A k \in EraStart(script, i) + 1 .. j - 1 : script[k][1] # "get"

\* C26: between two consecutive calls of new_era the closure passed to
\* get_keyset_commitment is invoked at most once, every call returns the
\* value the first call of that era computed, whatever closure it is given,
\* and new_era empties the cache, so that the first call after it computes
\* the value again.
C26_CacheOncePerEra ==
    bench.op = "CACHE" =>
        LET script == bench.input
            out == bench.output
            gets == {i \in 1 .. Len(script) : script[i][1] = "get"}
        IN  /\ Len(out) = Len(script)
            /\ \A i \in 1 .. Len(script) \ gets : out[i][2] = None
            /\ \A i \in gets :
                  /\ out[i][1] = script[FirstGet(script, i)][2]
                  /\ out[i][3] = (i = FirstGet(script, i))
            /\ \A i, j \in gets :
                  (EraStart(script, i) = EraStart(script, j) /\ out[i][3] /\ out[j][3])
                      => i = j

\* two calls with different closures in one era, then new_era and a call
\* that computes again: the second call returned the first call's value
\* without invoking its closure, the call after new_era invoked its own
C26_Witness ==
    /\ bench.op = "CACHE"
    /\ Len(bench.input) = 4
    /\ bench.input[1][1] = "get"
    /\ bench.input[2][1] = "get"
    /\ bench.input[3][1] = "new_era"
    /\ bench.input[4][1] = "get"
    /\ bench.input[1][2] # bench.input[2][2]
    /\ bench.input[4][2] # bench.input[1][2]
    /\ bench.output[2] = <<bench.input[1][2], bench.input[1][2], FALSE>>
    /\ bench.output[4] = <<bench.input[4][2], bench.input[4][2], TRUE>>

\* the three checks of the light client's last call of verify_aggregates,
\* made on the light client as it was before the call
LastProofVerifies ==
    LET before == demo.last[1]
        verifier == VerifierNew(before.kzg_vk, before.current_validator_set_commitment,
                                TranscriptNew("apk_proof"))
    IN  Verify(verifier, "simple", demo.last[2][1], demo.last[2][2], oracle).result

LastSignatureVerifies ==
    BlsVerify(demo.last[2][1][2], demo.last[2][3], hash_commitment(demo.last[2][4]))

LastQuorumReached == CountOnes(demo.last[2][1][3]) >= demo.last[1].quorum

\* C22: the light client replaces current_validator_set_commitment by the
\* new commitment only when, in that call, the apk proof verified against
\* the commitment it stored, the aggregate signature on the new commitment
\* verified under the proven apk, and the public input's bitmask has at
\* least quorum bits set; when a check fails the stored commitment stays as
\* it was.
C22_CommitmentReplacedAfterChecks ==
    (demo.pc # "none" /\ demo.last # None) =>
        LET before == demo.last[1]
            passed == LastProofVerifies /\ LastSignatureVerifies /\ LastQuorumReached
        IN  /\ (demo.last[3] = "ok") = passed
            /\ demo.light_client =
                  IF passed
                  THEN [before EXCEPT !.current_validator_set_commitment = demo.last[2][4]]
                  ELSE before

\* the second era's call failed on the quorum alone, the proof and the
\* signature being good, and left the commitment the first era's call had
\* stored in place of the genesis commitment
C22_Witness ==
    /\ demo.pc = "panicked"
    /\ demo.last # None
    /\ demo.era = 2
    /\ LastProofVerifies
    /\ LastSignatureVerifies
    /\ ~LastQuorumReached
    /\ demo.light_client.current_validator_set_commitment # keyset_comm
    /\ demo.light_client.current_validator_set_commitment # demo.last[2][4]
    /\ demo.light_client = demo.last[1]

\* the commitment to a validator set under the example's parameters
CommitmentTo(validator_set) ==
    KeysetCommit(KeysetNew(PublicKeys(validator_set)), CommitterKey(kzg_params))

\* the helper follows validator_set: its Prover is the one Prover::new gives
\* for that set's keyset, its commitment and a fresh transcript
HelperBoundTo(validator_set) ==
    /\ demo.helper.current_validator_set = validator_set
    /\ demo.helper.prover =
          ProverNew(KeysetNew(PublicKeys(validator_set)), CommitmentTo(validator_set),
                    kzg_params, TranscriptNew("apk_proof"))

\* C27: at the start of every era of the example's loop the helper's Prover
\* is bound to the keyset of the current validator set and the light client
\* stores the commitment to that set; aggregate_approvals proves with the
\* Prover of the outgoing set and then replaces current_validator_set and
\* the Prover, with a fresh transcript, by ones for the new set, and the
\* light client adopts the new commitment in the same era.
C27_HelperAndLightClientFollowTheChain ==
    /\ demo.pc \in {"rotate", "finished"} =>
          /\ HelperBoundTo(demo.current_validator_set)
          /\ demo.light_client.current_validator_set_commitment
                = CommitmentTo(demo.current_validator_set)
    /\ demo.pc = "verify" =>
          LET outgoing == demo.current_validator_set
              public_input == demo.submitted[1]
              verifier == VerifierNew(RawVk(kzg_params), CommitmentTo(outgoing),
                                      TranscriptNew("apk_proof"))
          IN  /\ HelperBoundTo(demo.new_validator_set)
              /\ demo.submitted[4] = CommitmentTo(demo.new_validator_set)
              /\ public_input =
                    AccountablePublicInputNew(
                        IntoAffine(SelectedSum(PublicKeys(outgoing), public_input[3])),
                        public_input[3])
              /\ Verify(verifier, "simple", public_input, demo.submitted[2], oracle).result
              /\ demo.light_client.current_validator_set_commitment
                    = CommitmentTo(outgoing)

\* the second era's change of the validator set has been proven: the helper
\* proved it with the Prover it built in the first era, for a set that is
\* not the genesis set, and is now bound to a third set
C27_Witness ==
    /\ demo.pc = "verify"
    /\ demo.era = 2
    /\ PublicKeys(demo.current_validator_set) # keyset.pks
    /\ PublicKeys(demo.new_validator_set) # PublicKeys(demo.current_validator_set)
    /\ PublicKeys(demo.new_validator_set) # keyset.pks
    /\ HelperBoundTo(demo.new_validator_set)
    /\ demo.light_client.current_validator_set_commitment
          = CommitmentTo(demo.current_validator_set)

\* the step of the example in which the helper's aggregate_approvals runs
AggregateApprovalsRuns == demo.pc = "aggregate" /\ demo'.pc # "aggregate"

\* aggregate_approvals failed with nothing done: no query was made to the
\* random oracle, and the helper holds the validator set and the Prover it
\* held
FailedBeforeProving ==
    /\ demo'.pc = "panicked"
    /\ oracle' = oracle
    /\ demo'.helper = demo.helper

\* the bitmask aggregate_approvals proved has one bit for each validator of
\* the outgoing set, set exactly for the validators whose public key is the
\* public key of an approval
ProvenBitmaskMarksApprovers ==
    LET bitmask == demo'.submitted[1][3]
        validators == PublicKeys(demo.current_validator_set)
    IN  /\ demo'.pc = "verify"
        /\ Len(bitmask) = Len(validators)
        /\ \A i \in 1 .. Len(validators) :
              bitmask[i] <=> \E j \in 1 .. Len(demo.approvals) :
                                 demo.approvals[j].pk = validators[i]

\* C31: aggregate_approvals called with no approval fails before the prover
\* is invoked and before current_validator_set or the Prover are replaced;
\* called with approvals it proves a bitmask as long as the outgoing
\* validator set, with bit i set exactly when validator i's public key is
\* among the approvals.
C31_AggregateApprovalsBitmask ==
    [][AggregateApprovalsRuns =>
          IF demo.approvals = <<>> THEN FailedBeforeProving
          ELSE ProvenBitmaskMarksApprovers]_vars

\* in the second era no validator approved: the call failed, the oracle
\* holds the queries of the first era only, and the helper is still bound
\* to the set the first era brought in
C31_Witness ==
    /\ demo.pc = "panicked"
    /\ demo.era = 2
    /\ demo.approvals = <<>>
    /\ demo.last # None
    /\ demo.last[3] = "ok"
    /\ oracle # <<>>
    /\ HelperBoundTo(demo.current_validator_set)
    /\ PublicKeys(demo.current_validator_set) # keyset.pks
    /\ PublicKeys(demo.new_validator_set) # PublicKeys(demo.current_validator_set)

\* the keyset has the amplified evaluations of its two polynomials
Amplified(ks) ==
    /\ ks.pks_evals_x4 # None
    /\ ks.pks_evals_x4 = <<AmplifyPolynomial(ks.pks_polys[1]),
                           AmplifyPolynomial(ks.pks_polys[2])>>

\* amplify leaves pks, pks_polys and domain alone, and a second amplify
\* changes nothing
AmplifyKeepsTheRest(ks) ==
    LET once == KeysetAmplify(ks)
    IN  /\ Amplified(once)
        /\ once.pks = ks.pks
        /\ once.pks_polys = ks.pks_polys
        /\ once.domain = ks.domain
        /\ KeysetAmplify(once) = once

\* the calls of prove that have handed the prover's keyset to a register
\* builder
BuilderCalls == {c \in Calls : calls[c].protocol # None}

\* C32: the keyset Keyset::new returned has no amplified evaluations;
\* amplify sets them from pks_polys, changes no other field and is
\* idempotent; Prover::new amplifies its keyset, so the keyset prove hands
\* to a register builder has them.
C32_ProverKeysetAmplified ==
    /\ keyset.pks_evals_x4 = None
    /\ AmplifyKeepsTheRest(keyset)
    /\ prover # None =>
          /\ Amplified(prover.keyset)
          /\ prover.keyset = KeysetAmplify(keyset)
          /\ AmplifyKeepsTheRest(prover.keyset)
    /\ BuilderCalls # {} => prover # None /\ Amplified(prover.keyset)

\* a call of prove over two keys has built its registers from the prover's
\* amplified keyset, while the keyset Keyset::new returned is as it was
C32_Witness ==
    /\ BuilderCalls # {}
    /\ prover # None
    /\ Len(prover.keyset.pks) = 2
    /\ prover.keyset.pks_evals_x4 # None
    /\ keyset.pks_evals_x4 = None
    /\ prover.keyset # keyset

\* k times the point p, by k additions
RECURSIVE Times(_, _)
Times(k, p) ==
    IF p.infinity \/ k = 0 THEN Identity ELSE Bw6Add(Times(k - 1, p), p)

\* the integer whose bits, the most significant first, are the sequence
RECURSIVE BitsValue(_)
BitsValue(bits) ==
    IF bits = <<>> THEN 0
    ELSE 2 * BitsValue(SubSeq(bits, 1, Len(bits) - 1))
           + (IF bits[Len(bits)] THEN 1 ELSE 0)

\* the points of G1: the points that FrModulus annihilates
Bw6G1 == {p \in Bw6Points : Times(FrModulus, p) = Identity}

\* u*p + p + phi(u^3*p - u^2*p + p), the multiples of p by additions
CheckedSum(p) ==
    LET up == Times(U, p)
        u2p == Times(U, Times(U, p))
        u3p == Times(U, Times(U, Times(U, p)))
    IN  Bw6Add(Bw6Add(up, p), glv_endomorphism_proj(Bw6Add(Bw6Sub(u3p, u2p), p)))

\* C33: mul_by_u(p) is u*p for every point p, u being the integer whose bits
\* the loop scans from the first set bit down (double, then add p when the
\* bit is set); subgroup_check(p) is true exactly when
\* u*p + p + phi(u^3*p - u^2*p + p) is the identity, phi being the
\* endomorphism that multiplies the points of G1 by lambda.
C33_SubgroupCheckFormula ==
    /\ BitIteratorBE(U) # <<>>
    /\ Head(BitIteratorBE(U))
    /\ BitsValue(BitIteratorBE(U)) = U
    /\ bench.op = "mul_by_u" => bench.output[1] = Times(U, bench.input[1])
    /\ bench.op = "subgroup_check" =>
          (bench.output[1] <=> CheckedSum(bench.input[1]) = Identity)
    /\ bench.op = "glv_endomorphism_proj" /\ bench.input[1] \in Bw6G1 =>
          bench.output[1] = Times(Lambda, bench.input[1])

\* subgroup_check has answered no for a point of the curve outside G1, for
\* which the sum is not the identity
C33_Witness ==
    /\ bench.op = "subgroup_check"
    /\ bench.input[1] \in Bw6Points \ Bw6G1
    /\ bench.output[1] = FALSE
    /\ CheckedSum(bench.input[1]) # Identity
    /\ mul_by_u(bench.input[1]) = Times(U, bench.input[1])
    /\ mul_by_u(bench.input[1]) # Identity

====
